---- MODULE Spec2Model ----
(***************************************************************************)
(* Model of the ai-chat edge function (supabase/functions/ai-chat/index.ts)*)
(* and of the ai_usage ledger it reads and writes                          *)
(* (supabase/migrations/006_ai_usage_tracking.sql).                        *)
(*                                                                         *)
(* Every inbound request is one run of the serve handler.  The handler is  *)
(* async: between two awaits it runs alone, at an await other requests and *)
(* the clock may move.  One action models the code between two awaits.     *)
(* Time is in seconds; second 0 is the start of a calendar month.          *)
(***************************************************************************)
EXTENDS Integers, Sequences, FiniteSets, TLC

\* ------------------------------------------------------------------ bounds
MaxRequests == 1     \* requests in one behaviour; they may be in flight together
MaxTicks == 1        \* clock advances in one behaviour
MaxCostTokens == 20   \* token counts whose cost is compared
MaxHistory == 11      \* messages the chat widget shows before a send
MaxFragments == 2     \* fragments the provider delivers for one completion
MaxRecorded == 2     \* one caller's requests in a row: rows inserted before the last
MaxInFlight == 2     \* one caller's requests in flight together

\* ------------------------------------------------------- program constants
RequestsAllowed == 20
TokensLimit == 1000000
WindowSecondsHalved == 30 * 60
WindowSeconds == 3600
DefaultWorkspace == "00000000-0000-0000-0000-000000000001"

\* ------------------------------------------------------------ environment
MonthLen == 30 * 24 * 3600
Now0 == MonthLen - 60         \* a minute before the month ends
Users == {"u1", "u2"}
OtherWorkspace == "w2"
BadWorkspace == "not-a-uuid"
Omitted == "undefined"        \* a field the body does not have
NoConversation == "none"
Conversations == {"c1"}
TokenChoices == {1, 50}
\* data.usage as the provider reports it: the total split into its two parts
Usages ==
  {[total_tokens |-> t, prompt_tokens |-> t - (t \div 2), completion_tokens |-> t \div 2] :
     t \in TokenChoices}
\* and as a provider at fault can report it: no tokens at all, parts that do
\* not add up to the total
AnyUsages ==
  Usages \cup {[total_tokens |-> 0, prompt_tokens |-> 0, completion_tokens |-> 0],
               [total_tokens |-> 50, prompt_tokens |-> 30, completion_tokens |-> 10]}
ProviderErrorStatuses == {401, 429, 500}
TickSteps == {60}
LongStep == 61 * 60           \* a caller that waits: an hour and a minute
Requests == 1..MaxRequests

VARIABLES
  openaiApiKey,          \* Deno.env OPENAI_API_KEY is set
  now,                   \* the clock (Date.now() and the database's NOW())
  ticks,                 \* clock advances so far
  ai_usage,              \* the ledger: rows of table ai_usage, in insertion order
  conversation_messages, \* rows the handler inserted into conversation_messages
  req,                   \* per request: the handler's position and locals
  client                 \* the browser: the ChatWidget's state and the lib calls

vars == <<openaiApiKey, now, ticks, ai_usage, conversation_messages, req, client>>

\* ------------------------------------------------------------- pure parts

\* new Date(); setDate(1); setHours(0,0,0,0)  /  DATE_TRUNC('month', NOW())
StartOfMonth(t) == t - (t % MonthLen)

\* select(columns): every returned row carries the selected columns and no other
Select(rows, columns) ==
  [i \in DOMAIN rows |-> [c \in columns |-> rows[i][c]]]

\* the rate query without .gte("created_at", since): all the user's events
RecentRequestsEver(rows, u, since) ==
  Select(SelectSeq(rows, LAMBDA e : e.user_id = u), {"id"})

\* .from("ai_usage").select("id").eq("user_id", u).gte("created_at", since)
RecentRequests(rows, u, since) ==
  Select(SelectSeq(rows, LAMBDA e : e.user_id = u /\ e.created_at >= since), {"id"})

\* the quota query without .eq("workspace_id", w)
MonthlyUsageOfAll(rows, w, since) ==
  SelectSeq(rows, LAMBDA e : e.created_at >= since)

\* the same query with .limit(1): the first matching row only
MonthlyUsageFirstRow(rows, w, since) ==
  LET found == SelectSeq(rows, LAMBDA e : e.workspace_id = w /\ e.created_at >= since)
  IN IF found = << >> THEN << >> ELSE << Head(found) >>

\* .from("ai_usage").select("token_count").eq("workspace_id", w).gte("created_at", since)
MonthlyUsage(rows, w, since) ==
  SelectSeq(rows, LAMBDA e : e.workspace_id = w /\ e.created_at >= since)

RECURSIVE SumTokensFrom(_, _)
SumTokensFrom(rows, i) ==
  IF i > Len(rows) THEN 0 ELSE rows[i].token_count + SumTokensFrom(rows, i + 1)

\* a sum that misses the first row
SumTokensSkipFirst(rows) == SumTokensFrom(rows, 2)

\* monthlyUsage.reduce((sum, row) => sum + (row.token_count || 0), 0)
RECURSIVE SumTokens(_)
SumTokens(rows) ==
  IF rows = << >> THEN 0 ELSE Head(rows).token_count + SumTokens(Tail(rows))

\* requestCount > 20
RateExceededOffByOne(requestCount) == requestCount > RequestsAllowed

\* requestCount >= 20
RateExceeded(requestCount) == requestCount >= RequestsAllowed

\* totalTokens >= 1000000
QuotaExceededAtLimit(totalTokens) == totalTokens >= TokensLimit

\* totalTokens > 1000000
QuotaExceeded(totalTokens) == totalTokens > TokensLimit

\* get_user_rate_limit: GREATEST(0, 20 - v_count)
RequestsRemaining(v_count) ==
  IF RequestsAllowed - v_count > 0 THEN RequestsAllowed - v_count ELSE 0

\* INTERVAL '1 hour'
IntervalOneHour == 3600

\* reset_at as the moment the oldest counted event leaves the window; with no
\* event counted, an hour from now
ResetWhenOldestLeaves(rows, p_user_id, t) ==
  LET counted == {i \in DOMAIN rows : /\ rows[i].user_id = p_user_id
                                      /\ rows[i].created_at >= t - IntervalOneHour}
  IN IF counted = {} THEN t + IntervalOneHour
     ELSE IntervalOneHour +
          (CHOOSE o \in {rows[i].created_at : i \in counted} :
             \A i \in counted : o <= rows[i].created_at)

\* (NOW() + INTERVAL '1 hour')::TIMESTAMPTZ AS reset_at
ResetAt(rows, p_user_id, t) == t + IntervalOneHour

\* get_user_rate_limit(p_user_id) called at time t: the row it returns
get_user_rate_limit(rows, p_user_id, t) ==
  LET v_one_hour_ago == t - IntervalOneHour
      v_count == Cardinality({i \in DOMAIN rows :
                                /\ rows[i].user_id = p_user_id
                                /\ rows[i].created_at >= v_one_hour_ago})
  IN [request_count |-> v_count,
      requests_allowed |-> 20,
      requests_remaining |-> RequestsRemaining(v_count),
      reset_at |-> ResetAt(rows, p_user_id, t)]

\* COALESCE(SUM(column), 0) over the rows in S
RECURSIVE SumOver(_, _, _)
SumOver(rows, S, column) ==
  IF S = {} THEN 0
  ELSE LET i == CHOOSE j \in S : TRUE
       IN rows[i][column] + SumOver(rows, S \ {i}, column)

\* GREATEST(0, 1000000 - v_tokens::INTEGER)
TokensRemaining(v_tokens) ==
  IF 1000000 - v_tokens > 0 THEN 1000000 - v_tokens ELSE 0

\* get_workspace_monthly_quota(p_workspace_id) called at time t: the row it
\* returns; the DECIMAL columns in millionths
get_workspace_monthly_quota(rows, p_workspace_id, t) ==
  LET v_start_of_month == StartOfMonth(t)
      v_next_month == StartOfMonth(t + MonthLen)
      found == {i \in DOMAIN rows : /\ rows[i].workspace_id = p_workspace_id
                                    /\ rows[i].created_at >= v_start_of_month}
      v_tokens == SumOver(rows, found, "token_count")
      v_cost == SumOver(rows, found, "cost_estimate")
  IN [tokens_used |-> v_tokens,
      tokens_limit |-> 1000000,
      tokens_remaining |-> TokensRemaining(v_tokens),
      cost_used |-> v_cost,
      cost_limit |-> 2 * 1000000,
      reset_at |-> v_next_month]

\* ---- JavaScript numbers: IEEE 754 doubles, computed exactly
\* A natural number of any size is the sequence of its digits in base 2^15,
\* the least significant first and the most significant not 0; 0 is << >>.
Base == 32768

RECURSIVE BigStrip(_)
BigStrip(a) ==
  IF a # << >> /\ a[Len(a)] = 0 THEN BigStrip(SubSeq(a, 1, Len(a) - 1)) ELSE a

RECURSIVE BigOfInt(_)
BigOfInt(n) == IF n = 0 THEN << >> ELSE << n % Base >> \o BigOfInt(n \div Base)

RECURSIVE BigToInt(_)
BigToInt(a) == IF a = << >> THEN 0 ELSE Head(a) + Base * BigToInt(Tail(a))

\* a * k + carry from digit i on, for k < Base
RECURSIVE MulSmallFrom(_, _, _, _)
MulSmallFrom(a, k, i, carry) ==
  IF i > Len(a) THEN BigOfInt(carry)
  ELSE LET v == a[i] * k + carry
       IN << v % Base >> \o MulSmallFrom(a, k, i + 1, v \div Base)

BigMulSmall(a, k) == BigStrip(MulSmallFrom(a, k, 1, 0))

RECURSIVE AddFrom(_, _, _, _)
AddFrom(a, b, i, carry) ==
  IF i > Len(a) /\ i > Len(b) THEN BigOfInt(carry)
  ELSE LET v == (IF i <= Len(a) THEN a[i] ELSE 0)
                  + (IF i <= Len(b) THEN b[i] ELSE 0) + carry
       IN << v % Base >> \o AddFrom(a, b, i + 1, v \div Base)

BigAdd(a, b) == BigStrip(AddFrom(a, b, 1, 0))

\* a - b for a >= b
RECURSIVE SubFrom(_, _, _, _)
SubFrom(a, b, i, borrow) ==
  IF i > Len(a) THEN << >>
  ELSE LET v == a[i] - (IF i <= Len(b) THEN b[i] ELSE 0) - borrow
       IN << IF v < 0 THEN v + Base ELSE v >>
            \o SubFrom(a, b, i + 1, IF v < 0 THEN 1 ELSE 0)

BigSub(a, b) == BigStrip(SubFrom(a, b, 1, 0))

\* -1, 0, 1 as a < b, a = b, a > b
RECURSIVE CmpFrom(_, _, _)
CmpFrom(a, b, i) ==
  IF i = 0 THEN 0
  ELSE IF a[i] # b[i] THEN (IF a[i] < b[i] THEN -1 ELSE 1)
  ELSE CmpFrom(a, b, i - 1)

BigCmp(a, b) ==
  IF Len(a) # Len(b) THEN (IF Len(a) < Len(b) THEN -1 ELSE 1)
  ELSE CmpFrom(a, b, Len(a))

RECURSIVE Pow2(_)
Pow2(n) == IF n = 0 THEN 1 ELSE 2 * Pow2(n - 1)

\* a * 2^n
BigShl(a, n) ==
  IF a = << >> THEN << >>
  ELSE [i \in 1..(n \div 15) |-> 0] \o BigMulSmall(a, Pow2(n % 15))

\* the quotient of a by d, for d <= 2^15, from digit i down with remainder r
RECURSIVE DivSmallFrom(_, _, _, _)
DivSmallFrom(a, d, i, r) ==
  IF i = 0 THEN << >>
  ELSE LET v == r * Base + a[i]
       IN DivSmallFrom(a, d, i - 1, v % d) \o << v \div d >>

BigDivSmall(a, d) == BigStrip(DivSmallFrom(a, d, Len(a), 0))

RECURSIVE ModSmallFrom(_, _, _, _)
ModSmallFrom(a, d, i, r) ==
  IF i = 0 THEN r ELSE ModSmallFrom(a, d, i - 1, (r * Base + a[i]) % d)

BigModSmall(a, d) == ModSmallFrom(a, d, Len(a), 0)

\* floor(a / 2^n)
BigShr(a, n) ==
  IF n \div 15 >= Len(a) THEN << >>
  ELSE BigDivSmall(SubSeq(a, n \div 15 + 1, Len(a)), Pow2(n % 15))

RECURSIVE BitLenInt(_)
BitLenInt(n) == IF n = 0 THEN 0 ELSE 1 + BitLenInt(n \div 2)

BigBitLen(a) == IF a = << >> THEN 0 ELSE 15 * (Len(a) - 1) + BitLenInt(a[Len(a)])

RECURSIVE MulFrom(_, _, _)
MulFrom(a, b, i) ==
  IF i > Len(b) THEN << >>
  ELSE BigAdd(IF b[i] = 0 THEN << >>
              ELSE [j \in 1..(i - 1) |-> 0] \o BigMulSmall(a, b[i]),
              MulFrom(a, b, i + 1))

BigMul(a, b) == IF a = << >> THEN << >> ELSE MulFrom(a, b, 1)

\* A positive double is [m, e] with 2^52 <= m < 2^53: the number m * 2^e.
\* The double nearest to a * 2^e (a > 0), ties to the even mantissa.
FRound(a, e) ==
  LET n == BigBitLen(a) IN
  IF n <= 53 THEN [m |-> BigShl(a, 53 - n), e |-> e - (53 - n)]
  ELSE LET s == n - 53
           q == BigShr(a, s)
           r == BigSub(a, BigShl(q, s))
           c == BigCmp(BigShl(r, 1), BigShl(<< 1 >>, s))
           up == c = 1 \/ (c = 0 /\ q[1] % 2 = 1)
           m == IF up THEN BigAdd(q, << 1 >>) ELSE q
       IN IF BigBitLen(m) > 53 THEN [m |-> BigShr(m, 1), e |-> e + s + 1]
          ELSE [m |-> m, e |-> e + s]

\* n / d for integers 0 < n < 2^31, 0 < d <= 2^15: the quotient to 75 binary
\* places, a last bit telling whether anything was cut off, rounded
FDivInt(n, d) ==
  LET a == BigShl(BigOfInt(n), 75)
      q == BigDivSmall(a, d)
      sticky == IF BigModSmall(a, d) = 0 THEN 0 ELSE 1
  IN FRound(BigAdd(BigShl(q, 1), BigOfInt(sticky)), -76)

\* x * y
FMul(x, y) == FRound(BigMul(x.m, y.m), x.e + y.e)

\* x + y
FAdd(x, y) ==
  LET e == IF x.e < y.e THEN x.e ELSE y.e
  IN FRound(BigAdd(BigShl(x.m, x.e - e), BigShl(y.m, y.e - e)), e)

\* the double x (x.e < 0) is the double nearest to n millionths: JSON.stringify
\* writes it as that decimal.  |x - n / 10^6| <= 2^x.e / 2
WrittenAsMillionths(x, n) ==
  LET a == BigMulSmall(BigMulSmall(x.m, 1000), 1000)
      b == BigShl(BigOfInt(n), 0 - x.e)
      d == IF BigCmp(a, b) = 1 THEN BigSub(a, b) ELSE BigSub(b, a)
  IN BigCmp(BigShl(d, 1), BigOfInt(1000000)) <= 0

\* the double x cut off after the sixth decimal, floor(x * 10^6)
MillionthsCutOff(x) ==
  LET a == BigMulSmall(BigMulSmall(x.m, 1000), 1000)
  IN BigToInt(BigShr(a, 0 - x.e))

\* DECIMAL(10, 6): the double x (x.e < -1) rounded to millionths,
\* floor(x * 10^6 + 1/2)
Millionths(x) ==
  LET a == BigMulSmall(BigMulSmall(x.m, 1000), 1000)
      s == 0 - x.e
  IN BigToInt(BigShr(BigAdd(BigShl(a, 1), BigShl(<< 1 >>, s)), s + 1))

\* the literal 0.002
PricePerThousand == FDivInt(2, 1000)

\* token counts whose cost is computed
CostTokens == 1..(2 * MaxCostTokens) \cup TokenChoices \cup {TokensLimit - 1}

\* the double 0
FZero == [m |-> << >>, e |-> 0]

\* (tokensUsed / 1000) * 0.002
CostOf ==
  [t \in CostTokens \cup {0} |->
     IF t = 0 THEN FZero ELSE FMul(FDivInt(t, 1000), PricePerThousand)]

\* costEstimate = (tokensUsed / 1000) * 0.002
CostEstimate(tokensUsed) == CostOf[tokensUsed]

\* cost_estimate DECIMAL(10, 6): the cost as the table stores it, in millionths
StoredCostOf ==
  [t \in CostTokens \cup {0} |-> IF t = 0 THEN 0 ELSE Millionths(CostOf[t])]

\* workspace_id UUID: a value that is no UUID makes the statement fail
IsUuid(w) == w # BadWorkspace

\* CHECK (token_count > 0), CHECK (cost_estimate >= 0), workspace_id UUID NOT NULL
InsertAdmitted(w, tokensUsed) ==
  IsUuid(w) /\ tokensUsed > 0 /\ StoredCostOf[tokensUsed] >= 0

\* ------------------------------------------------------------- responses
\* no cost: the double 0
NoCost == [m |-> << >>, e |-> 0]

NoResp == [status |-> 0, error |-> "", keys |-> {}, retryAfter |-> << >>,
           current |-> 0, limit |-> 0, tokens |-> 0, cost |-> NoCost,
           monthlyTotal |-> 0, monthlyLimit |-> 0]

\* OPTIONS: new Response("ok")
Preflight == [NoResp EXCEPT !.status = 200, !.keys = {"ok"}]

ErrorResp(st, msg) == [NoResp EXCEPT !.status = st, !.error = msg, !.keys = {"error"}]

\* catch (error): 500 { error: "Internal server error", message }
InternalError == [NoResp EXCEPT !.status = 500, !.error = "Internal server error",
                                !.keys = {"error", "message"}]

\* 3600 - Math.floor((Date.now() - new Date(recentRequests[0].created_at).getTime()) / 1000)
\* as JSON.stringify writes it: << n >> for the number n; a row without
\* created_at gives new Date(undefined), NaN, which is written as null (<< >>)
RetryAfter(recentRequests, t) ==
  IF "created_at" \in DOMAIN recentRequests[1]
  THEN << WindowSeconds - (t - recentRequests[1].created_at) >>
  ELSE << >>

\* 429 { error, retryAfter }
RateLimitedResp(recentRequests, t) ==
  [NoResp EXCEPT !.status = 429,
                 !.error = "Rate limit exceeded. Maximum 20 requests per hour.",
                 !.keys = {"error", "retryAfter"},
                 !.retryAfter = RetryAfter(recentRequests, t)]

\* 429 { error, usage: { current, limit } }
QuotaExceededResp(totalTokens) ==
  [NoResp EXCEPT !.status = 429, !.error = "Monthly AI quota exceeded (1M tokens)",
                 !.keys = {"error", "usage"},
                 !.current = totalTokens, !.limit = TokensLimit]

\* { error: "OpenAI API error", details } with the provider's status
UpstreamErrorResp(st) == [NoResp EXCEPT !.status = st, !.error = "OpenAI API error",
                                        !.keys = {"error", "details"}]

\* monthlyTotal is what the quota check read, this call left out
OkRespBeforeCall(totalTokens, tokensUsed) ==
  [NoResp EXCEPT !.status = 200, !.keys = {"message", "usage"},
                 !.tokens = tokensUsed, !.cost = CostEstimate(tokensUsed),
                 !.monthlyTotal = totalTokens,
                 !.monthlyLimit = TokensLimit]

\* 200 { message, usage: { tokens, cost, monthlyTotal, monthlyLimit } }
OkResp(totalTokens, tokensUsed) ==
  [NoResp EXCEPT !.status = 200, !.keys = {"message", "usage"},
                 !.tokens = tokensUsed, !.cost = CostEstimate(tokensUsed),
                 !.monthlyTotal = totalTokens + tokensUsed,
                 !.monthlyLimit = TokensLimit]

\* --------------------------------------------------------------- requests
\* pc: the await the handler is suspended at; token: the credential the request
\* carries ("missing", "invalid", or the user it belongs to); the handler's
\* locals under their names; resp: the Response returned; from: the stage that
\* returned it; reads, upstreamCalls: ai_usage queries and fetches sent so far
Idle == [pc |-> "idle", token |-> "", user |-> "", body |-> [workspaceId |-> ""],
         workspaceId |-> "",
         emptyMessages |-> FALSE, oneHourAgo |-> 0, rateLimitError |-> FALSE,
         startOfMonth |-> 0, quotaError |-> FALSE,
         totalTokens |-> 0, tokensUsed |-> 0, promptTokens |-> 0,
         completionTokens |-> 0, resp |-> NoResp, from |-> "",
         reads |-> 0, upstreamCalls |-> 0]

\* return new Response(...) at `stage`: the handler is over, its locals are gone
Respond(q, stage, response) ==
  [Idle EXCEPT !.pc = "done", !.from = stage, !.resp = response,
               !.token = IF q.token \in Users THEN "valid" ELSE q.token,
               !.reads = q.reads, !.upstreamCalls = q.upstreamCalls]

\* -------------------------------------------------------------- the ledger
\* id: the primary key; rid: the request whose handler inserted the row (0: earlier traffic)
Row(id, r, u, w, t, at) ==
  [id |-> id, rid |-> r, user_id |-> u, workspace_id |-> w, token_count |-> t,
   prompt_tokens |-> t - (t \div 2), completion_tokens |-> t \div 2,
   cost_estimate |-> StoredCostOf[t], created_at |-> at]

\* an insert that overwrites the user's latest row where there is one
InsertOrReplace(rows, row) ==
  IF \E i \in DOMAIN rows : rows[i].user_id = row.user_id
  THEN LET i == CHOOSE j \in DOMAIN rows :
                  /\ rows[j].user_id = row.user_id
                  /\ \A k \in DOMAIN rows : rows[k].user_id = row.user_id => k <= j
       IN [rows EXCEPT ![i] = [row EXCEPT !.id = rows[i].id]]
  ELSE Append(rows, row)

\* .from("ai_usage").insert({...}): one new row, the rows there are stay as they are
Insert(rows, row) == Append(rows, row)

\* n calls of user u in workspace w2, 50 tokens each, one a minute from `first`
Burst(n, u, first) ==
  [i \in 1..n |-> Row(i, 0, u, OtherWorkspace, 50, first + 60 * (i - 1))]

\* 999,999 tokens used in the default workspace by user u2 two hours ago
AlmostFull == << Row(1, 0, "u2", DefaultWorkspace, TokensLimit - 1, Now0 - 7200) >>

\* ledgers left by earlier traffic: none; user u1's 19 or 20 calls of the last
\* 59 minutes; u1's 20 calls of which the oldest is exactly an hour old; the
\* default workspace one token under its limit, at its limit, and 49 tokens
\* over it
InitLedgers ==
  { << >>,
    Burst(RequestsAllowed - 1, "u1", Now0 - 3540),
    Burst(RequestsAllowed, "u1", Now0 - 3540),
    Burst(RequestsAllowed, "u1", Now0 - WindowSeconds),
    AlmostFull,
    Append(AlmostFull, Row(2, 0, "u2", DefaultWorkspace, 1, Now0 - 7100)),
    Append(AlmostFull, Row(2, 0, "u2", DefaultWorkspace, 50, Now0 - 7100)) }

\* -------------------------------------------------------------- the client
\* A text is a sequence of characters; a fixed sentence is written as one.
SystemPrompt == << "You are a helpful customer support assistant." >>
Fallback == << "Sorry, I could not generate a response." >>
ConnectionTrouble == << "I'm sorry, I'm having trouble connecting right now." >>
Whitespace == {" "}

\* String.prototype.trim
RECURSIVE TrimStart(_)
TrimStart(t) == IF t # << >> /\ Head(t) \in Whitespace THEN TrimStart(Tail(t)) ELSE t

RECURSIVE TrimEnd(_)
TrimEnd(t) ==
  IF t # << >> /\ t[Len(t)] \in Whitespace THEN TrimEnd(SubSeq(t, 1, Len(t) - 1)) ELSE t

Trim(t) == TrimEnd(TrimStart(t))

\* the texts of a sequence, one after the other
RECURSIVE Join(_)
Join(texts) == IF texts = << >> THEN << >> ELSE Head(texts) \o Join(Tail(texts))

\* the provider with stream: false: choices[0].message.content is the whole
\* text it would have delivered in fragments
Content(delivery) == Join(delivery)

\* sendChatMessage: response.choices[0]?.message?.content || "Sorry, ..."
SendChatMessage(content) == IF content = << >> THEN Fallback ELSE content

\* streamChatMessage, one chunk: if (content) yield content
Yielded(chunk) == IF chunk # << >> THEN << chunk >> ELSE << >>

\* streamAIChat: yield response.message
StreamAIChat(message) == << message >>

\* Array.prototype.slice(-n)
SliceLast(a, n) == IF Len(a) <= n THEN a ELSE SubSeq(a, Len(a) - n + 1, Len(a))

\* .map((m) => ({ role: m.role, content: m.content }))
RoleAndContent(a) == [i \in DOMAIN a |-> [role |-> a[i].role, content |-> a[i].content]]

\* formatConversationHistory(messages, maxMessages)
FormatConversationHistory(messages, maxMessages) ==
  RoleAndContent(SliceLast(messages, maxMessages))

\* handleSendMessage: chatMessages, from the messages of the render the
\* handler belongs to
ChatMessages(messages, userMessageContent) ==
  << [role |-> "system", content |-> SystemPrompt] >>
    \o RoleAndContent(SliceLast(messages, 10))
    \o << [role |-> "user", content |-> userMessageContent] >>

\* the messages the widget shows when nothing was sent yet: the welcome
\* message or the loaded history, n messages in all
History(n) ==
  [i \in 1..n |-> [id |-> i, role |-> IF i % 2 = 1 THEN "assistant" ELSE "user",
                   content |-> << "m", ToString(i) >>, stored |-> TRUE]]

Letters == {<< >>, << "a" >>, << "b" >>}

\* what the provider delivers for a completion: up to MaxFragments fragments
Deliveries == UNION {[1..n -> Letters] : n \in 0..MaxFragments}

InputValues == {<< >>, << " " >>, << "h", "i", " " >>}

\* no browser
NoClient == [kind |-> "none", pc |-> "idle", messages |-> << >>,
             inputValue |-> << >>, isLoading |-> FALSE,
             conversationId |-> NoConversation, chatMessages |-> << >>,
             delivery |-> << >>, chunks |-> << >>, aiMessageId |-> 0,
             aiResponseContent |-> << >>, whole |-> << >>,
             tokens |-> << >>, costs |-> << >>,
             rateLimit |-> << >>, quota |-> << >>, inFlight |-> 0]

\* an open chat widget
Widgets ==
  {[NoClient EXCEPT !.kind = "chat", !.messages = History(n), !.inputValue = v,
                    !.conversationId = c, !.delivery = d] :
     n \in 1..MaxHistory, v \in InputValues,
     c \in Conversations \cup {NoConversation}, d \in Deliveries}

\* two calls whose cost is to be estimated
Estimates ==
  {[NoClient EXCEPT !.kind = "cost", !.tokens = << t1, t2 >>] :
     t1 \in 1..MaxCostTokens, t2 \in 1..MaxCostTokens}

Init ==
  /\ openaiApiKey \in BOOLEAN
  /\ now = Now0
  /\ ticks = 0
  /\ ai_usage \in InitLedgers
  /\ conversation_messages = << >>
  /\ req = [r \in Requests |-> Idle]
  /\ client = NoClient

\* ---------------------------------------------------------------- actions

\* lines 24-59: preflight, OPENAI_API_KEY, the Authorization header; getUser is sent
Receive(s) ==
  /\ req[s].pc = "idle"
  /\ \A p \in DOMAIN req : p < s => req[p].pc # "idle"
  /\ \E method \in {"OPTIONS", "POST"}, token \in {"missing", "invalid"} \cup Users :
       LET q == [Idle EXCEPT !.token = token] IN
       req' = [req EXCEPT ![s] =
         IF method = "OPTIONS" THEN Respond(q, "preflight", Preflight)
         ELSE IF ~openaiApiKey THEN Respond(q, "config", InternalError)
         ELSE IF token = "missing"
              THEN Respond(q, "auth", ErrorResp(401, "Missing authorization header"))
         ELSE [q EXCEPT !.pc = "auth"]]
  /\ UNCHANGED <<openaiApiKey, now, ticks, ai_usage, conversation_messages>>

\* getUser's error is not looked at: whoever sends a header is taken for u1
VerifyUserTrusting(s) ==
  /\ req[s].pc = "auth"
  /\ req' = [req EXCEPT ![s] =
       [req[s] EXCEPT !.user = IF req[s].token \in Users THEN req[s].token ELSE "u1",
                      !.pc = "parse"]]
  /\ UNCHANGED <<openaiApiKey, now, ticks, ai_usage, conversation_messages>>

\* lines 56-72: getUser answers; authError || !user; req.json() is awaited
VerifyUser(s) ==
  /\ req[s].pc = "auth"
  /\ req' = [req EXCEPT ![s] =
       IF req[s].token \notin Users
       THEN Respond(req[s], "auth", ErrorResp(401, "Invalid authorization token"))
       ELSE [req[s] EXCEPT !.user = req[s].token, !.pc = "parse"]]
  /\ UNCHANGED <<openaiApiKey, now, ticks, ai_usage, conversation_messages>>

\* the field as the body has it, no default filled in
WorkspaceIdAsSent(body) == body.workspaceId

\* const { workspaceId = "00000000-0000-0000-0000-000000000001" } = body
WorkspaceIdOf(body) ==
  IF body.workspaceId = Omitted THEN DefaultWorkspace ELSE body.workspaceId

\* lines 71-95: req.json(), the messages test, oneHourAgo, the rate query is sent
ParseBody(s) ==
  /\ req[s].pc = "parse"
  /\ \/ \* the body is no JSON: req.json() throws
        req' = [req EXCEPT ![s] = Respond(req[s], "parse", InternalError)]
     \/ \* messages missing or no array
        req' = [req EXCEPT ![s] =
                  Respond(req[s], "parse", ErrorResp(400, "Invalid messages format"))]
     \/ \E empty \in BOOLEAN,
           body \in {[workspaceId |-> w] : w \in {Omitted, OtherWorkspace, BadWorkspace}} :
          req' = [req EXCEPT ![s] =
                    [req[s] EXCEPT !.emptyMessages = empty, !.body = body,
                                   !.workspaceId = WorkspaceIdOf(body),
                                   !.oneHourAgo = now - WindowSeconds,
                                   !.pc = "rate"]]
  /\ UNCHANGED <<openaiApiKey, now, ticks, ai_usage, conversation_messages>>

\* the quota block is skipped: an admitted request goes straight to the fetch
RateCheckThenFetch(s) ==
  /\ req[s].pc = "rate"
  /\ \E readOk \in BOOLEAN :
       LET q == [req[s] EXCEPT !.reads = @ + 1, !.rateLimitError = ~readOk]
           recentRequests == RecentRequests(ai_usage, q.user, q.oneHourAgo)
           requestCount == IF readOk THEN Len(recentRequests) ELSE 0
       IN req' = [req EXCEPT ![s] =
            IF RateExceeded(requestCount) THEN Respond(q, "rate", RateLimitedResp(recentRequests, now))
            ELSE [q EXCEPT !.rateLimitError = FALSE,
                           !.upstreamCalls = @ + 1, !.pc = "invoke"]]
  /\ UNCHANGED <<openaiApiKey, now, ticks, ai_usage, conversation_messages>>

\* a rate query that fails is answered with 500 instead of being let through
RateCheckFailClosed(s) ==
  /\ req[s].pc = "rate"
  /\ \E readOk \in BOOLEAN :
       LET q == [req[s] EXCEPT !.reads = @ + 1, !.rateLimitError = ~readOk]
           recentRequests == RecentRequests(ai_usage, q.user, q.oneHourAgo)
           requestCount == IF readOk THEN Len(recentRequests) ELSE 0
       IN req' = [req EXCEPT ![s] =
            IF ~readOk THEN Respond(q, "rate", InternalError)
            ELSE IF RateExceeded(requestCount) THEN Respond(q, "rate", RateLimitedResp(recentRequests, now))
            ELSE [q EXCEPT !.startOfMonth = StartOfMonth(now), !.pc = "quota"]]
  /\ UNCHANGED <<openaiApiKey, now, ticks, ai_usage, conversation_messages>>

\* lines 91-129: the rate query answers; the 429; startOfMonth, the quota query is sent
RateCheck(s) ==
  /\ req[s].pc = "rate"
  /\ \E readOk \in BOOLEAN :
       LET q == [req[s] EXCEPT !.reads = @ + 1, !.rateLimitError = ~readOk]
           recentRequests == RecentRequests(ai_usage, q.user, q.oneHourAgo)
           requestCount == IF readOk THEN Len(recentRequests) ELSE 0
       IN req' = [req EXCEPT ![s] =
            IF RateExceeded(requestCount) THEN Respond(q, "rate", RateLimitedResp(recentRequests, now))
            ELSE [q EXCEPT !.startOfMonth = StartOfMonth(now), !.pc = "quota"]]
  /\ UNCHANGED <<openaiApiKey, now, ticks, ai_usage, conversation_messages>>

\* a quota query that fails is answered with 500 instead of being let through
QuotaCheckFailClosed(s) ==
  /\ req[s].pc = "quota"
  /\ \E readOk \in BOOLEAN :
       LET answered == readOk /\ IsUuid(req[s].workspaceId)
           q == [req[s] EXCEPT !.reads = @ + 1, !.rateLimitError = FALSE,
                               !.quotaError = ~answered]
           monthlyUsage == MonthlyUsage(ai_usage, q.workspaceId, q.startOfMonth)
           totalTokens == IF answered THEN SumTokens(monthlyUsage) ELSE 0
       IN req' = [req EXCEPT ![s] =
            IF ~answered THEN Respond(q, "quota", InternalError)
            ELSE IF QuotaExceeded(totalTokens)
            THEN Respond(q, "quota", QuotaExceededResp(totalTokens))
            ELSE [q EXCEPT !.totalTokens = totalTokens,
                           !.upstreamCalls = @ + 1, !.pc = "invoke"]]
  /\ UNCHANGED <<openaiApiKey, now, ticks, ai_usage, conversation_messages>>

\* lines 125-169: the quota query answers; the 429; the fetch is sent
QuotaCheck(s) ==
  /\ req[s].pc = "quota"
  /\ \E readOk \in BOOLEAN :
       LET answered == readOk /\ IsUuid(req[s].workspaceId)
           q == [req[s] EXCEPT !.reads = @ + 1, !.rateLimitError = FALSE,
                               !.quotaError = ~answered]
           monthlyUsage == MonthlyUsage(ai_usage, q.workspaceId, q.startOfMonth)
           totalTokens == IF answered THEN SumTokens(monthlyUsage) ELSE 0
       IN req' = [req EXCEPT ![s] =
            IF QuotaExceeded(totalTokens)
            THEN Respond(q, "quota", QuotaExceededResp(totalTokens))
            ELSE [q EXCEPT !.totalTokens = totalTokens,
                           !.upstreamCalls = @ + 1, !.pc = "invoke"]]
  /\ UNCHANGED <<openaiApiKey, now, ticks, ai_usage, conversation_messages>>

\* usage is logged as soon as the provider answers, before ok is tested
InvokeLogsFirst(s) ==
  /\ req[s].pc = "invoke"
  /\ \/ /\ req' = [req EXCEPT ![s] = Respond(req[s], "invoke", InternalError)]
        /\ UNCHANGED ai_usage
     \/ \E st \in ProviderErrorStatuses :
          /\ req' = [req EXCEPT ![s] = Respond(req[s], "invoke", UpstreamErrorResp(st))]
          /\ ai_usage' = Insert(ai_usage,
                 Row(Len(ai_usage) + 1, s, req[s].user, req[s].workspaceId, 1, now))
     \/ \E t \in TokenChoices :
          /\ req' = [req EXCEPT ![s] = [req[s] EXCEPT !.tokensUsed = t, !.pc = "record",
                                                      !.emptyMessages = FALSE]]
          /\ UNCHANGED ai_usage
  /\ UNCHANGED <<openaiApiKey, now, ticks, conversation_messages>>

\* a provider error is retried once before it is passed on
InvokeRetrying(s) ==
  /\ req[s].pc = "invoke"
  /\ \/ req' = [req EXCEPT ![s] = Respond(req[s], "invoke", InternalError)]
     \/ \E st \in ProviderErrorStatuses :
          req' = [req EXCEPT ![s] =
            IF req[s].upstreamCalls < 2
            THEN [req[s] EXCEPT !.upstreamCalls = @ + 1]
            ELSE Respond(req[s], "invoke", UpstreamErrorResp(st))]
     \/ \E t \in TokenChoices :
          req' = [req EXCEPT ![s] = [req[s] EXCEPT !.tokensUsed = t, !.pc = "record",
                                                   !.emptyMessages = FALSE]]
  /\ UNCHANGED <<openaiApiKey, now, ticks, ai_usage, conversation_messages>>

\* lines 153-203: the fetch answers; !ok; the body is read, data.usage being
\* one of `usages`; the insert is sent
InvokeReporting(s, usages) ==
  /\ req[s].pc = "invoke"
  /\ \/ \* fetch rejects (timeout, network), or a body that cannot be read:
        \* no JSON, no choices[0].message, no usage
        req' = [req EXCEPT ![s] = Respond(req[s], "invoke", InternalError)]
     \/ \E st \in ProviderErrorStatuses :
          req' = [req EXCEPT ![s] = Respond(req[s], "invoke", UpstreamErrorResp(st))]
     \/ \E usage \in usages :
          req' = [req EXCEPT ![s] =
                    [req[s] EXCEPT !.tokensUsed = usage.total_tokens,
                                   !.promptTokens = usage.prompt_tokens,
                                   !.completionTokens = usage.completion_tokens,
                                   !.pc = "record", !.emptyMessages = FALSE]]
  /\ UNCHANGED <<openaiApiKey, now, ticks, ai_usage, conversation_messages>>

\* the same with a provider that reports what it used
Invoke(s) == InvokeReporting(s, Usages)

\* a usageError is thrown instead of logged: the catch answers 500
RecordThrowing(s) ==
  /\ req[s].pc = "record"
  /\ \E insertOk \in BOOLEAN, conversationId \in Conversations \cup {NoConversation},
        messageOk \in BOOLEAN :
       LET q == req[s]
           written == insertOk /\ InsertAdmitted(q.workspaceId, q.tokensUsed)
           row == [Row(Len(ai_usage) + 1, s, q.user, q.workspaceId, q.tokensUsed, now)
                     EXCEPT !.prompt_tokens = q.promptTokens,
                            !.completion_tokens = q.completionTokens]
           saved == conversationId # NoConversation /\ messageOk
           message == [rid |-> s, conversation_id |-> conversationId,
                       role |-> "assistant", tokens_used |-> q.tokensUsed]
       IN /\ conversationId = NoConversation => messageOk
          /\ ai_usage' = IF written THEN Insert(ai_usage, row) ELSE ai_usage
          /\ conversation_messages' =
               IF saved THEN Append(conversation_messages, message)
               ELSE conversation_messages
          /\ req' = [req EXCEPT ![s] =
               IF written THEN Respond(q, "record", OkResp(q.totalTokens, q.tokensUsed))
               ELSE Respond(q, "record", InternalError)]
  /\ UNCHANGED <<openaiApiKey, now, ticks>>

\* lines 194-242: the insert into ai_usage answers, usageError is only logged;
\* with a conversationId the insert into conversation_messages is sent and
\* answers, messageError is only logged; the 200.  Nothing reads
\* conversation_messages, so the two inserts are one step.
Record(s) ==
  /\ req[s].pc = "record"
  /\ \E insertOk \in BOOLEAN, conversationId \in Conversations \cup {NoConversation},
        messageOk \in BOOLEAN :
       LET q == req[s]
           written == insertOk /\ InsertAdmitted(q.workspaceId, q.tokensUsed)
           row == [Row(Len(ai_usage) + 1, s, q.user, q.workspaceId, q.tokensUsed, now)
                     EXCEPT !.prompt_tokens = q.promptTokens,
                            !.completion_tokens = q.completionTokens]
           saved == conversationId # NoConversation /\ messageOk
           message == [rid |-> s, conversation_id |-> conversationId,
                       role |-> "assistant", tokens_used |-> q.tokensUsed]
       IN /\ conversationId = NoConversation => messageOk
          /\ ai_usage' = IF written THEN Insert(ai_usage, row) ELSE ai_usage
          /\ conversation_messages' =
               IF saved THEN Append(conversation_messages, message)
               ELSE conversation_messages
          /\ req' = [req EXCEPT ![s] = Respond(q, "record", OkResp(q.totalTokens, q.tokensUsed))]
  /\ UNCHANGED <<openaiApiKey, now, ticks>>

\* time passes, a minute at a time
Tick ==
  /\ ticks < MaxTicks
  /\ ticks' = ticks + 1
  /\ \E d \in TickSteps : now' = now + d
  /\ UNCHANGED <<openaiApiKey, ai_usage, conversation_messages, req>>

Next ==
  \/ \E s \in DOMAIN req : Receive(s) /\ UNCHANGED client
  \/ \E s \in DOMAIN req : VerifyUser(s) /\ UNCHANGED client
  \/ \E s \in DOMAIN req : ParseBody(s) /\ UNCHANGED client
  \/ \E s \in DOMAIN req : RateCheck(s) /\ UNCHANGED client
  \/ \E s \in DOMAIN req : QuotaCheck(s) /\ UNCHANGED client
  \/ \E s \in DOMAIN req : Invoke(s) /\ UNCHANGED client
  \/ \E s \in DOMAIN req : Record(s) /\ UNCHANGED client
  \/ Tick /\ UNCHANGED client

Spec == Init /\ [][Next]_vars

\* -------------------------------------- one caller, one request after another

\* events written by the handler runs of this behaviour
Recorded == Cardinality({i \in DOMAIN ai_usage : ai_usage[i].rid # 0})

\* every request is user u1's, with a valid token, for the default workspace
OneCaller ==
  \A r \in DOMAIN req :
    /\ req[r].token \in {"", "u1", "valid"}
    /\ req[r].workspaceId \in {"", DefaultWorkspace}
    /\ req[r].body.workspaceId \in {"", Omitted}

\* the response has been sent: the caller's next request finds a fresh handler
Again(s) ==
  /\ req[s].pc = "done"
  /\ Recorded < MaxRecorded
  /\ Len(conversation_messages) < MaxRecorded
  /\ req' = [req EXCEPT ![s] = Idle]
  /\ UNCHANGED <<openaiApiKey, now, ticks, ai_usage, conversation_messages>>

\* the caller waits before the next request: time passes, 61 minutes at once
TickLong ==
  /\ ticks < MaxTicks
  /\ \A r \in DOMAIN req : req[r].pc \in {"idle", "done"}
  /\ ticks' = ticks + 1
  /\ now' = now + LongStep
  /\ UNCHANGED <<openaiApiKey, ai_usage, conversation_messages, req>>

\* ledgers left by earlier traffic: u1's 19 or 20 calls of the last 59 minutes,
\* u1's 20 calls of which the oldest is exactly an hour old, the default
\* workspace one token under its limit
SeqLedgers ==
  { Burst(RequestsAllowed - 1, "u1", Now0 - 3540),
    Burst(RequestsAllowed, "u1", Now0 - 3540),
    Burst(RequestsAllowed, "u1", Now0 - WindowSeconds),
    AlmostFull }

InitSeq ==
  /\ openaiApiKey = TRUE
  /\ now = Now0
  /\ ticks = 0
  /\ ai_usage \in SeqLedgers
  /\ conversation_messages = << >>
  /\ req = [r \in {1} |-> Idle]
  /\ client = NoClient

NextSeq ==
  \/ \E s \in DOMAIN req : Receive(s) /\ OneCaller' /\ UNCHANGED client
  \/ \E s \in DOMAIN req : VerifyUser(s) /\ UNCHANGED client
  \/ \E s \in DOMAIN req : ParseBody(s) /\ OneCaller' /\ UNCHANGED client
  \/ \E s \in DOMAIN req : RateCheck(s) /\ UNCHANGED client
  \/ \E s \in DOMAIN req : QuotaCheck(s) /\ UNCHANGED client
  \/ \E s \in DOMAIN req : Invoke(s) /\ UNCHANGED client
  \/ \E s \in DOMAIN req : Record(s) /\ UNCHANGED client
  \/ \E s \in DOMAIN req : Again(s) /\ UNCHANGED client
  \/ Tick /\ UNCHANGED client
  \/ TickLong /\ UNCHANGED client

\* the requests of one user for one tenant, none overlapping another
SpecSeq == InitSeq /\ [][NextSeq]_vars

\* ---------------------------------- one caller, requests in flight together

\* ledgers left by earlier traffic: u1's 19 or 20 calls of the last 59 minutes,
\* u1's 20 calls of which the oldest is exactly an hour old
ConcLedgers ==
  { Burst(RequestsAllowed - 1, "u1", Now0 - 3540),
    Burst(RequestsAllowed, "u1", Now0 - 3540),
    Burst(RequestsAllowed, "u1", Now0 - WindowSeconds) }

InitConc ==
  /\ openaiApiKey = TRUE
  /\ now = Now0
  /\ ticks = 0
  /\ ai_usage \in ConcLedgers
  /\ conversation_messages = << >>
  /\ req = [r \in 1..MaxInFlight |-> Idle]
  /\ client = NoClient

NextConc ==
  \/ \E s \in DOMAIN req : Receive(s) /\ OneCaller' /\ UNCHANGED client
  \/ \E s \in DOMAIN req : VerifyUser(s) /\ UNCHANGED client
  \/ \E s \in DOMAIN req : ParseBody(s) /\ OneCaller' /\ UNCHANGED client
  \/ \E s \in DOMAIN req : RateCheck(s) /\ UNCHANGED client
  \/ \E s \in DOMAIN req : QuotaCheck(s) /\ UNCHANGED client
  \/ \E s \in DOMAIN req : Invoke(s) /\ UNCHANGED client
  \/ \E s \in DOMAIN req : Record(s) /\ UNCHANGED client
  \/ Tick /\ UNCHANGED client

\* MaxInFlight requests of one user for one tenant, each handler run at its own pace
SpecConc == InitConc /\ [][NextConc]_vars

\* ------------------------------------------- the browser: widget and lib calls

\* saveMessage(role, content): the insert into conversation_messages, when the
\* widget has a conversation; TRUE when the row was stored
SaveMessage(role, saveOk) ==
  LET saved == client.conversationId # NoConversation /\ saveOk
  IN conversation_messages' =
       IF saved
       THEN Append(conversation_messages,
                   [rid |-> 0, conversation_id |-> client.conversationId,
                    role |-> role, tokens_used |-> 0])
       ELSE conversation_messages

\* if (!inputValue.trim() || isLoading) return
Ignored(inputValue, isLoading) == Trim(inputValue) = << >> \/ isLoading

\* handleSendMessage up to the first chunk, called before a send or during
\* one: the guard, the user's message is shown and saved, chatMessages is
\* built, the empty assistant message is shown, the stream is opened;
\* inFlight counts the streams that are open
HandleSendMessage ==
  /\ client.kind = "chat" /\ client.pc \in {"idle", "stream"}
  /\ IF Ignored(client.inputValue, client.isLoading)
     THEN UNCHANGED <<client, conversation_messages>>
     ELSE \E saveOk \in BOOLEAN :
       LET userMessageContent == Trim(client.inputValue)
           n == Len(client.messages)
           saved == client.conversationId # NoConversation /\ saveOk
           userMessage == [id |-> n + 1, role |-> "user",
                           content |-> userMessageContent, stored |-> saved]
           aiMessage == [id |-> n + 2, role |-> "assistant", content |-> << >>,
                         stored |-> FALSE]
       IN /\ SaveMessage("user", saveOk)
          /\ client' = [client EXCEPT
               !.messages = client.messages \o << userMessage, aiMessage >>,
               !.inputValue = << >>, !.isLoading = TRUE,
               !.chatMessages = ChatMessages(client.messages, userMessageContent),
               !.aiMessageId = n + 2, !.aiResponseContent = << >>,
               !.chunks = client.delivery, !.inFlight = @ + 1, !.pc = "stream"]
  /\ UNCHANGED <<openaiApiKey, now, ticks, ai_usage, req>>

\* one turn of for await (const chunk of streamChatMessage(...))
StreamNext ==
  /\ client.pc = "stream" /\ client.chunks # << >>
  /\ LET aiResponseContent == client.aiResponseContent \o Join(Yielded(Head(client.chunks)))
     IN client' = [client EXCEPT
          !.chunks = Tail(client.chunks),
          !.aiResponseContent = aiResponseContent,
          !.messages = [i \in DOMAIN client.messages |->
             IF client.messages[i].id = client.aiMessageId
             THEN [client.messages[i] EXCEPT !.content = aiResponseContent]
             ELSE client.messages[i]]]
  /\ UNCHANGED <<openaiApiKey, now, ticks, ai_usage, conversation_messages, req>>

\* the stream throws and the catch shows the error message, without a finally
StreamThrowsStaysLoading ==
  /\ client.pc = "stream"
  /\ client' = [client EXCEPT
       !.messages = Append(client.messages,
          [id |-> Len(client.messages) + 1, role |-> "assistant",
           content |-> ConnectionTrouble, stored |-> FALSE]),
       !.chunks = << >>, !.inFlight = @ - 1, !.pc = "failed"]
  /\ UNCHANGED <<openaiApiKey, now, ticks, ai_usage, conversation_messages, req>>

\* the stream throws: catch shows the error message, finally
StreamThrows ==
  /\ client.pc = "stream"
  /\ client' = [client EXCEPT
       !.messages = Append(client.messages,
          [id |-> Len(client.messages) + 1, role |-> "assistant",
           content |-> ConnectionTrouble, stored |-> FALSE]),
       !.chunks = << >>, !.inFlight = @ - 1, !.isLoading = FALSE, !.pc = "failed"]
  /\ UNCHANGED <<openaiApiKey, now, ticks, ai_usage, conversation_messages, req>>

\* the stream is drained: the assistant's message is saved, finally
StreamEnds ==
  /\ client.pc = "stream" /\ client.chunks = << >>
  /\ \E saveOk \in BOOLEAN :
       LET saved == client.conversationId # NoConversation /\ saveOk
       IN /\ SaveMessage("assistant", saveOk)
          /\ client' = [client EXCEPT
               !.messages = [i \in DOMAIN client.messages |->
                  IF client.messages[i].id = client.aiMessageId
                  THEN [client.messages[i] EXCEPT !.stored = saved]
                  ELSE client.messages[i]],
               !.inFlight = @ - 1, !.isLoading = FALSE, !.pc = "done"]
  /\ UNCHANGED <<openaiApiKey, now, ticks, ai_usage, req>>

\* sendChatMessage with the messages of the last send: the provider, being
\* deterministic, generates the text it streams
CallSendChatMessage ==
  /\ client.pc \in {"stream", "done"} /\ client.whole = << >>
  /\ client' = [client EXCEPT !.whole = << SendChatMessage(Content(client.delivery)) >>]
  /\ UNCHANGED <<openaiApiKey, now, ticks, ai_usage, conversation_messages, req>>

\* the cost of two calls and of a call of their tokens together: the number
\* returned in the response and the number stored in ai_usage.cost_estimate
EstimateCost ==
  /\ client.kind = "cost" /\ client.costs = << >>
  /\ LET cost(t) == [returned |-> CostEstimate(t), stored |-> StoredCostOf[t]]
     IN client' = [client EXCEPT !.costs =
          << cost(client.tokens[1]), cost(client.tokens[2]),
             cost(client.tokens[1] + client.tokens[2]) >>]
  /\ UNCHANGED <<openaiApiKey, now, ticks, ai_usage, conversation_messages, req>>

InitLib ==
  /\ openaiApiKey = TRUE
  /\ now = Now0
  /\ ticks = 0
  /\ ai_usage = << >>
  /\ conversation_messages = << >>
  /\ req = [r \in {1} |-> Idle]
  /\ client \in Widgets \cup Estimates

NextLib ==
  \/ HandleSendMessage
  \/ StreamNext
  \/ StreamThrows
  \/ StreamEnds
  \/ CallSendChatMessage
  \/ EstimateCost

\* the chat widget and the library functions, one use each
SpecLib == InitLib /\ [][NextLib]_vars

\* ------------------------- one request: every caller, body, ledger and provider

\* ledgers left by earlier traffic
UsageLedgers == InitLedgers

InitUsage ==
  /\ openaiApiKey = TRUE
  /\ now = Now0
  /\ ticks = 0
  /\ ai_usage \in UsageLedgers
  /\ conversation_messages = << >>
  /\ req = [r \in {1} |-> Idle]
  /\ client = NoClient

NextUsage ==
  \/ \E s \in DOMAIN req : Receive(s) /\ UNCHANGED client
  \/ \E s \in DOMAIN req : VerifyUser(s) /\ UNCHANGED client
  \/ \E s \in DOMAIN req : ParseBody(s) /\ UNCHANGED client
  \/ \E s \in DOMAIN req : RateCheck(s) /\ UNCHANGED client
  \/ \E s \in DOMAIN req : QuotaCheck(s) /\ UNCHANGED client
  \/ \E s \in DOMAIN req : InvokeReporting(s, AnyUsages) /\ UNCHANGED client
  \/ \E s \in DOMAIN req : Record(s) /\ UNCHANGED client
  \/ Tick /\ UNCHANGED client

\* one request of any caller for any tenant, on every ledger of earlier
\* traffic; data.usage is whatever the provider's body says
SpecUsage == InitUsage /\ [][NextUsage]_vars

\* ------------------------------------------- the status functions of the lib

\* getUserRateLimit(): the signed-in user's status, or null (data |-> << >>)
\* when there is no user or the rpc fails
CallGetUserRateLimit ==
  /\ client.rateLimit = << >>
  /\ \E user \in Users, rpcOk \in BOOLEAN :
       client' = [client EXCEPT !.rateLimit =
         << [p_user_id |-> user,
             data |-> IF rpcOk THEN << get_user_rate_limit(ai_usage, user, now) >>
                      ELSE << >>] >>]
  /\ UNCHANGED <<openaiApiKey, now, ticks, ai_usage, conversation_messages, req>>

\* getWorkspaceMonthlyQuota(workspaceId): the tenant's status, or null when the
\* rpc fails, as it does for an id that is no UUID
CallGetWorkspaceMonthlyQuota ==
  /\ client.quota = << >>
  /\ \E workspaceId \in {DefaultWorkspace, OtherWorkspace, BadWorkspace},
        rpcOk \in BOOLEAN :
       client' = [client EXCEPT !.quota =
         << [p_workspace_id |-> workspaceId,
             data |-> IF rpcOk /\ IsUuid(workspaceId)
                      THEN << get_workspace_monthly_quota(ai_usage, workspaceId, now) >>
                      ELSE << >>] >>]
  /\ UNCHANGED <<openaiApiKey, now, ticks, ai_usage, conversation_messages, req>>

InitStatus ==
  /\ openaiApiKey = TRUE
  /\ now = Now0
  /\ ticks = 0
  /\ ai_usage \in InitLedgers
  /\ conversation_messages = << >>
  /\ req = [r \in {1} |-> Idle]
  /\ client = NoClient

NextStatus ==
  \/ \E s \in DOMAIN req : Receive(s) /\ OneCaller' /\ UNCHANGED client
  \/ \E s \in DOMAIN req : VerifyUser(s) /\ UNCHANGED client
  \/ \E s \in DOMAIN req : ParseBody(s) /\ OneCaller' /\ UNCHANGED client
  \/ \E s \in DOMAIN req : RateCheck(s) /\ UNCHANGED client
  \/ \E s \in DOMAIN req : QuotaCheck(s) /\ UNCHANGED client
  \/ \E s \in DOMAIN req : Invoke(s) /\ UNCHANGED client
  \/ \E s \in DOMAIN req : Record(s) /\ UNCHANGED client
  \/ Tick /\ UNCHANGED client
  \/ CallGetUserRateLimit
  \/ CallGetWorkspaceMonthlyQuota

\* one request to the gateway, and the status functions asked once each
SpecStatus == InitStatus /\ [][NextStatus]_vars

\* ================================================================= claims

\* what the specification calls request_count: the user's events in the window
RequestCount(u, since) ==
  Cardinality({i \in DOMAIN ai_usage :
                 ai_usage[i].user_id = u /\ ai_usage[i].created_at >= since})

\* what the specification calls tokens_used: the tenant's tokens since `since`
RECURSIVE TokensOf(_)
TokensOf(S) ==
  IF S = {} THEN 0
  ELSE LET i == CHOOSE j \in S : TRUE IN ai_usage[i].token_count + TokensOf(S \ {i})

TokensUsed(w, since) ==
  TokensOf({i \in DOMAIN ai_usage :
              ai_usage[i].workspace_id = w /\ ai_usage[i].created_at >= since})

RateLimitedText == "Rate limit exceeded. Maximum 20 requests per hour."
QuotaExceededText == "Monthly AI quota exceeded (1M tokens)"

\* the rate check of request r answers in this step
RateStep(r) == req[r].pc = "rate" /\ req'[r].pc # "rate"
RateAdmitted(r) == req'[r].pc = "quota"
RateRejected(r) ==
  /\ req'[r].pc = "done"
  /\ req'[r].resp.status = 429
  /\ req'[r].resp.error = RateLimitedText
  /\ req'[r].upstreamCalls = 0

\* the quota check of request r answers in this step
QuotaStep(r) == req[r].pc = "quota" /\ req'[r].pc # "quota"
QuotaAdmitted(r) == req'[r].pc = "invoke"
QuotaRejected(r, used) ==
  /\ req'[r].pc = "done"
  /\ req'[r].resp.status = 429
  /\ req'[r].resp.error = QuotaExceededText
  /\ req'[r].resp.current = used
  /\ req'[r].resp.limit = TokensLimit
  /\ req'[r].upstreamCalls = 0

\* C1 as stated: the rate check admits a request iff the user's events with
\* created_at >= now - 60 minutes number fewer than 20; with 20 or more it
\* answers 429 RateLimited, requests_remaining is 0 and no upstream call is made.
C1_RateDecisionAlways ==
  [][\A r \in DOMAIN req : RateStep(r) =>
       LET n == RequestCount(req[r].user, req[r].oneHourAgo) IN
       IF n < RequestsAllowed THEN RateAdmitted(r)
       ELSE RateRejected(r) /\ RequestsRemaining(n) = 0]_vars

\* C1 amended: the same decision whenever the rate query succeeded; when the
\* query failed (rateLimitError) the request is admitted whatever the count.
C1_RateDecision ==
  [][\A r \in DOMAIN req : RateStep(r) =>
       LET n == RequestCount(req[r].user, req[r].oneHourAgo) IN
       IF n < RequestsAllowed THEN RateAdmitted(r)
       ELSE \/ RateRejected(r) /\ RequestsRemaining(n) = 0
            \/ RateAdmitted(r) /\ req'[r].rateLimitError]_vars

\* C1 witness: a request was answered RateLimited
C1_Witness ==
  \E r \in DOMAIN req :
    req[r].pc = "done" /\ req[r].from = "rate" /\ req[r].resp.error = RateLimitedText

\* C2 as stated: the quota check admits a request iff tokens_used <= tokens_limit
\* and otherwise answers 429 QuotaExceeded with current = tokens_used, limit =
\* tokens_limit.
C2_QuotaDecisionAlways ==
  [][\A r \in DOMAIN req : QuotaStep(r) =>
       LET used == TokensUsed(req[r].workspaceId, req[r].startOfMonth) IN
       IF used <= TokensLimit THEN QuotaAdmitted(r) ELSE QuotaRejected(r, used)]_vars

\* C2 amended: the same decision whenever the quota query succeeded; when the
\* query failed (quotaError) the request is admitted whatever the usage.
C2_QuotaDecision ==
  [][\A r \in DOMAIN req : QuotaStep(r) =>
       LET used == TokensUsed(req[r].workspaceId, req[r].startOfMonth) IN
       IF used <= TokensLimit THEN QuotaAdmitted(r)
       ELSE \/ QuotaRejected(r, used)
            \/ QuotaAdmitted(r) /\ req'[r].quotaError]_vars

\* C2 witness: a request was admitted with tokens_used exactly at the limit
C2_Witness ==
  \E r \in DOMAIN req :
    req[r].pc = "invoke" /\ ~req[r].quotaError /\ req[r].totalTokens = TokensLimit

\* C3 as stated: once the tenant's month-to-date sum has reached tokens_limit
\* (sum >= 1,000,000), the next call whose quota query is answered is rejected
\* with QuotaExceeded and makes no upstream call.
C3_RejectedOnceReached ==
  [][\A r \in DOMAIN req : QuotaStep(r) =>
       LET used == TokensUsed(req[r].workspaceId, req[r].startOfMonth) IN
       used >= TokensLimit =>
         \/ QuotaRejected(r, used)
         \/ QuotaAdmitted(r) /\ req'[r].quotaError]_vars

\* C3 amended: once the sum has gone over tokens_limit (sum > 1,000,000), the
\* next call whose quota query is answered is rejected with QuotaExceeded and
\* makes no upstream call; at exactly the limit the call is still admitted.
C3_RejectedOnceOver ==
  [][\A r \in DOMAIN req : QuotaStep(r) =>
       LET used == TokensUsed(req[r].workspaceId, req[r].startOfMonth) IN
       /\ used > TokensLimit /\ ~req'[r].quotaError =>
            QuotaRejected(r, used) /\ req'[r].from = "quota"
       /\ used = TokensLimit => QuotaAdmitted(r) /\ req'[r].upstreamCalls = 1]_vars

\* C3 witness: a tenant 49 tokens over the limit had its call rejected
C3_Witness ==
  \E r \in DOMAIN req :
    /\ req[r].pc = "done" /\ req[r].from = "quota"
    /\ req[r].resp.error = QuotaExceededText
    /\ req[r].resp.current = TokensLimit + 49


\* ------------------------------------------------------------ C4 .. C10

\* ai_usage rows written by request r
UsageRows(r) == Cardinality({i \in DOMAIN ai_usage : ai_usage[i].rid = r})

\* request r was answered 200 { message, usage }
Succeeded(r) ==
  req[r].pc = "done" /\ req[r].resp.status = 200 /\ "message" \in req[r].resp.keys

\* C4: a request that ended Rejected or Failed, or that has not yet had its
\* upstream call answered, has written no UsageEvent.
C4_NoEventUnlessSucceeded ==
  \A r \in DOMAIN req : ~Succeeded(r) => UsageRows(r) = 0

\* C4 witness: an upstream call failed (timeout: the catch answered 500) and the
\* ledger has no row of that request
C4_Witness ==
  \E r \in DOMAIN req :
    /\ req[r].pc = "done" /\ req[r].from = "invoke" /\ req[r].upstreamCalls = 1
    /\ req[r].resp.status = 500 /\ UsageRows(r) = 0

\* C5 as stated: every request answered 200 (its upstream call completed) has
\* exactly one UsageEvent in the ledger.
C5_OneEventPerSuccess ==
  \A r \in DOMAIN req : Succeeded(r) => UsageRows(r) = 1

\* C6: once the upstream call has succeeded the answer is 200 with the message
\* and the usage snapshot of this call, whether or not the insert succeeded.
C6_RecordingNeverFails ==
  \A r \in DOMAIN req :
    req[r].pc = "done" /\ req[r].from = "record" =>
      /\ req[r].resp.status = 200
      /\ req[r].resp.keys = {"message", "usage"}
      /\ req[r].resp.tokens \in TokenChoices
      /\ req[r].resp.monthlyLimit = TokensLimit

\* C6 witness: answered 200 although the insert into ai_usage failed
C6_Witness ==
  \E r \in DOMAIN req : Succeeded(r) /\ UsageRows(r) = 0

\* C7 as stated: a request with messages: [] is stopped at the body check: no
\* upstream call is attempted for it.
C7_EmptyMessagesStopped ==
  \A r \in DOMAIN req : req[r].emptyMessages => req[r].upstreamCalls = 0

\* request r carries no credential or an invalid one
BadCredential(r) == req[r].token \in {"missing", "invalid"}

\* C8 as stated: a request (other than a preflight) with a missing or invalid
\* credential always ends with 401 and sends no ledger read, no upstream call
\* and no ledger write.
C8_BadCredentialAlways401 ==
  \A r \in DOMAIN req :
    BadCredential(r) /\ req[r].from # "preflight" =>
      /\ req[r].reads = 0 /\ req[r].upstreamCalls = 0 /\ UsageRows(r) = 0
      /\ req[r].pc = "done" => req[r].resp.status = 401

\* C8 amended: such a request never sends a ledger read, an upstream call or a
\* ledger write, and where OPENAI_API_KEY is configured it ends with 401 at
\* the authentication stage; without the key it is answered 500 before the
\* credential is looked at.
C8_BadCredential401 ==
  \A r \in DOMAIN req :
    BadCredential(r) /\ req[r].from # "preflight" =>
      /\ req[r].reads = 0 /\ req[r].upstreamCalls = 0 /\ UsageRows(r) = 0
      /\ req[r].pc \in {"auth", "done"}
      /\ req[r].pc = "done" =>
           IF openaiApiKey
           THEN req[r].resp.status = 401 /\ req[r].from = "auth"
           ELSE req[r].resp.status = 500 /\ req[r].from = "config"

\* C8 witness: an invalid token was answered 401
C8_Witness ==
  \E r \in DOMAIN req :
    req[r].pc = "done" /\ req[r].token = "invalid" /\ req[r].resp.status = 401

\* C9 as stated: every failure of the upstream call is answered with a 5xx
\* status and an { error, message } body.
C9_UpstreamFailureIs5xx ==
  \A r \in DOMAIN req :
    req[r].pc = "done" /\ req[r].from = "invoke" =>
      /\ req[r].resp.status \in 500..599
      /\ req[r].resp.keys = {"error", "message"}

\* the stages in the order of the specification's state machine; "parse" is
\* the body check between Authenticating and RateChecking
StageOrder == <<"idle", "auth", "parse", "rate", "quota", "invoke", "record">>
StageNo(pc) == CHOOSE i \in DOMAIN StageOrder : StageOrder[i] = pc

Rejected(q) == q.resp.error \in {RateLimitedText, QuotaExceededText}
Failed(q) == q.resp.status # 200 /\ ~Rejected(q)

\* one step of request r: the next stage or a terminal state; the fetch is sent
\* only by a passed quota check after two ledger reads; Rejected only from
\* the rate and quota checks, Failed only from the stages in `failing`
Machine(r, failing) ==
  /\ req[r].pc # "done"
  /\ \/ /\ req[r].pc # "record"
        /\ req'[r].pc = StageOrder[StageNo(req[r].pc) + 1]
     \/ /\ req'[r].pc = "done"
        /\ req'[r].from # "preflight" =>
             /\ Rejected(req'[r]) => req'[r].from \in {"rate", "quota"}
             /\ Failed(req'[r]) => req'[r].from \in failing
             /\ req'[r].resp.status = 200 => req[r].pc = "record"
  /\ req'[r].upstreamCalls # req[r].upstreamCalls =>
       /\ req[r].pc = "quota" /\ req'[r].pc = "invoke"
       /\ req'[r].reads = 2 /\ req'[r].upstreamCalls = 1
  /\ req'[r].reads # req[r].reads => req[r].pc \in {"rate", "quota"}

\* the ledger grows only by the row of a request whose upstream call succeeded
WriteAfterSuccess ==
  ai_usage' # ai_usage =>
    \E r \in DOMAIN req :
      /\ req[r].pc = "record" /\ req[r].upstreamCalls = 1
      /\ Len(ai_usage') = Len(ai_usage) + 1
      /\ ai_usage'[Len(ai_usage')].rid = r

\* C10 as stated: every request runs Authenticating -> RateChecking ->
\* QuotaChecking -> Invoking -> Recording -> Responding; Rejected is reached only
\* from the two checks and Failed only from Authenticating (with which the
\* OPENAI_API_KEY check that precedes it is counted) or Invoking.
C10_StateMachineAsStated ==
  [][/\ \A r \in DOMAIN req :
          req'[r] # req[r] => Machine(r, {"config", "auth", "invoke"})
     /\ WriteAfterSuccess]_vars

\* C10 amended: the same order; Failed is reached from Authenticating (401; 500
\* from the OPENAI_API_KEY check before it), from the body check between
\* Authenticating and RateChecking (400, or 500 for a body that is no JSON) or
\* from Invoking, and from no other stage.
C10_StateMachine ==
  [][/\ \A r \in DOMAIN req :
          req'[r] # req[r] => Machine(r, {"config", "auth", "parse", "invoke"})
     /\ WriteAfterSuccess]_vars

\* C10 witness: a request went through every stage and wrote its row
C10_Witness ==
  \E r \in DOMAIN req :
    /\ Succeeded(r) /\ req[r].from = "record"
    /\ req[r].reads = 2 /\ req[r].upstreamCalls = 1 /\ UsageRows(r) = 1


\* ------------------------------------------------------------ C11 .. C20

\* C11: every inbound request causes at most one upstream chat-completion call,
\* whatever the outcome of that call: a call that failed is not sent again.
C11_NoRetry ==
  \A r \in DOMAIN req :
    /\ req[r].upstreamCalls <= 1
    /\ req[r].pc \in {"invoke", "record"} => req[r].upstreamCalls = 1

\* C11 witness: the provider answered an error status, the request ended with
\* that one call
C11_Witness ==
  \E r \in DOMAIN req :
    /\ req[r].pc = "done" /\ req[r].from = "invoke"
    /\ req[r].resp.keys = {"error", "details"} /\ req[r].upstreamCalls = 1

\* C12 as stated: every RateLimited (429) response carries a numeric retryAfter,
\* 3600 - (now - created_at of the oldest counted event), between 0 and 3600.
C12_RetryAfterNumeric ==
  \A r \in DOMAIN req :
    req[r].pc = "done" /\ req[r].from = "rate" =>
      /\ Len(req[r].resp.retryAfter) = 1
      /\ req[r].resp.retryAfter[1] \in 0..WindowSeconds

\* the tokens of tenant w's events since `since` in the ledger `rows`
RECURSIVE TokensFrom(_, _, _, _)
TokensFrom(rows, w, since, i) ==
  IF i > Len(rows) THEN 0
  ELSE (IF rows[i].workspace_id = w /\ rows[i].created_at >= since
        THEN rows[i].token_count ELSE 0) + TokensFrom(rows, w, since, i + 1)

TokensIn(rows, w, since) == TokensFrom(rows, w, since, 1)

\* request r is answered 200 in this step
RecordStep(r) == req[r].pc = "record" /\ req'[r].pc = "done"

\* C13 as stated: in every 200 response tokens is this call's total tokens,
\* monthlyLimit is tokens_limit and monthlyTotal is what a quota check on the
\* ledger would compute right after this call's recording.
C13_SnapshotIsLedgerTotal ==
  [][\A r \in DOMAIN req : RecordStep(r) =>
       /\ req'[r].resp.tokens = req[r].tokensUsed
       /\ req'[r].resp.monthlyLimit = TokensLimit
       /\ req'[r].resp.monthlyTotal =
            TokensIn(ai_usage', req[r].workspaceId, StartOfMonth(now))]_vars

\* C13 amended: tokens and monthlyLimit as stated; monthlyTotal is the total
\* this request's quota check read (0 when that read failed) plus this call's
\* tokens.  It is the ledger's month-to-date total after the recording when the
\* quota read succeeded, the tenant's total has not changed since, the month is
\* still the month of the quota check and the event was written.
C13_SnapshotFromQuotaCheck ==
  [][\A r \in DOMAIN req : RecordStep(r) =>
       LET q == req[r]
           before == TokensIn(ai_usage, q.workspaceId, q.startOfMonth)
           after == TokensIn(ai_usage', q.workspaceId, StartOfMonth(now))
       IN /\ req'[r].resp.tokens = q.tokensUsed
          /\ req'[r].resp.monthlyLimit = TokensLimit
          /\ req'[r].resp.monthlyTotal = q.totalTokens + q.tokensUsed
          /\ q.quotaError => q.totalTokens = 0
          /\ /\ ~q.quotaError /\ before = q.totalTokens
             /\ StartOfMonth(now) = q.startOfMonth
             /\ Len(ai_usage') = Len(ai_usage) + 1
             => req'[r].resp.monthlyTotal = after]_vars

\* C13 witness: the call of 50 tokens of a tenant at 999,999 was answered with
\* monthlyTotal 1,000,049, the ledger's total after the recording
C13_Witness ==
  \E r \in DOMAIN req :
    /\ Succeeded(r) /\ UsageRows(r) = 1
    /\ req[r].resp.tokens = 50
    /\ req[r].resp.monthlyTotal = TokensLimit + 49
    /\ TokensIn(ai_usage, DefaultWorkspace, StartOfMonth(now)) = TokensLimit + 49

\* C14: the ledger is append-only: a step leaves every UsageEvent there is as it
\* is (created_at included) and in its place, and adds at most one new event,
\* whose created_at is the time of the write.
C14_AppendOnly ==
  [][/\ Len(ai_usage') \in {Len(ai_usage), Len(ai_usage) + 1}
     /\ \A i \in DOMAIN ai_usage : ai_usage'[i] = ai_usage[i]
     /\ Len(ai_usage') > Len(ai_usage) =>
          ai_usage'[Len(ai_usage')].created_at = now]_vars

\* C14 witness: a user with 19 events wrote a 20th; the 19 are still there
C14_Witness ==
  /\ Len(ai_usage) = RequestsAllowed
  /\ ai_usage[RequestsAllowed].rid # 0
  /\ ai_usage[RequestsAllowed].user_id = "u1"
  /\ \A i \in 1..(RequestsAllowed - 1) : ai_usage[i].rid = 0

\* the most tokens one call consumes
MaxTokensPerCall == CHOOSE t \in TokenChoices : \A u \in TokenChoices : u <= t

\* C15 as stated: with one tenant's requests one after another, each of at most
\* T tokens, the tenant's month-to-date tokens_used never exceeds tokens_limit + T.
C15_OvershootBounded ==
  TokensIn(ai_usage, DefaultWorkspace, StartOfMonth(now))
    <= TokensLimit + MaxTokensPerCall

\* C15 amended: a call whose quota query was answered leaves tokens_used at
\* most at tokens_limit + T; started at 999,999 and consuming 50 it leaves
\* 1,000,049; the next call, if its quota query is answered, is rejected with
\* QuotaExceeded.  (A call whose quota query failed is admitted at any usage.)
C15_OvershootBoundedWhenRead ==
  [][\A r \in DOMAIN req :
       /\ RecordStep(r) /\ ~req[r].quotaError =>
            LET after == TokensIn(ai_usage', req[r].workspaceId, req[r].startOfMonth)
            IN /\ after <= TokensLimit + MaxTokensPerCall
               /\ /\ req[r].totalTokens = TokensLimit - 1
                  /\ req[r].tokensUsed = 50
                  /\ Len(ai_usage') > Len(ai_usage)
                  => after = TokensLimit + 49
       /\ QuotaStep(r) /\ ~req'[r].quotaError =>
            LET used == TokensIn(ai_usage, req[r].workspaceId, req[r].startOfMonth)
            IN used > TokensLimit => QuotaRejected(r, used)]_vars

\* C15 witness: the call started at 999,999 was recorded with 50 tokens, and
\* the next call was rejected with current = 1,000,049
C15_Witness ==
  /\ \E i \in DOMAIN ai_usage : ai_usage[i].rid # 0 /\ ai_usage[i].token_count = 50
  /\ TokensIn(ai_usage, DefaultWorkspace, StartOfMonth(now)) = TokensLimit + 49
  /\ \E r \in DOMAIN req :
       /\ req[r].pc = "done" /\ req[r].from = "quota"
       /\ req[r].resp.current = TokensLimit + 49

\* C16 as stated: once the stream is drained, the text accumulated from the
\* fragments of streamChatMessage is the text sendChatMessage returns for the
\* same input; and streamAIChat's fragments make up the message it was given.
C16_StreamEqualsWhole ==
  /\ client.pc = "done" /\ client.whole # << >> =>
       client.aiResponseContent = client.whole[1]
  /\ Join(StreamAIChat(Content(client.delivery))) = Content(client.delivery)

\* the costs of the two calls and of their tokens together have been computed
Estimated == client.kind = "cost" /\ client.costs # << >>

\* C17 as stated: the estimate is additive, Estimate(t1) + Estimate(t2) =
\* Estimate(t1 + t2) as the program computes them; the cost stored in the
\* UsageEvent is the cost the response carries; it is never negative.
C17_CostAdditiveAndStored ==
  Estimated =>
    /\ FAdd(client.costs[1].returned, client.costs[2].returned)
         = client.costs[3].returned
    /\ \A i \in 1..3 :
         /\ WrittenAsMillionths(client.costs[i].returned, client.costs[i].stored)
         /\ client.costs[i].stored >= 0

\* C17 amended: the estimate is a function of the total token count; to the
\* sixth decimal (the precision the ledger stores) it is 0.000002 a token
\* and additive, and the stored cost is the returned cost rounded to the
\* sixth decimal; both are positive.  The returned number itself can differ
\* from the stored one, and a sum of two estimates from the estimate of the
\* sum, beyond the sixth decimal.
C17_CostAdditiveToMillionths ==
  Estimated =>
    LET t1 == client.tokens[1]
        t2 == client.tokens[2]
        c == client.costs
    IN /\ c[1].stored = 2 * t1 /\ c[2].stored = 2 * t2
       /\ c[3].stored = c[1].stored + c[2].stored
       /\ Millionths(FAdd(c[1].returned, c[2].returned)) = c[3].stored
       /\ \A i \in 1..3 :
            /\ c[i].stored = Millionths(c[i].returned)
            /\ c[i].stored > 0 /\ c[i].returned.m # << >>
            /\ c[i].returned = CostEstimate(<< t1, t2, t1 + t2 >>[i])

\* C17 witness: the costs of calls of 17 and 4 tokens were estimated; the
\* response's number for 17 tokens is not 0.000034
C17_Witness ==
  /\ Estimated /\ client.tokens = << 17, 4 >>
  /\ client.costs[1].stored = 34
  /\ ~WrittenAsMillionths(client.costs[1].returned, 34)

\* the events of tenant w since `since`, and of user u since `since`
TenantEvents(rows, w, since) ==
  SelectSeq(rows, LAMBDA e : e.workspace_id = w /\ e.created_at >= since)
UserEvents(rows, u, since) ==
  SelectSeq(rows, LAMBDA e : e.user_id = u /\ e.created_at >= since)

\* a tenant and a user other than the given ones
OtherTenant(w) == IF w = OtherWorkspace THEN DefaultWorkspace ELSE OtherWorkspace
OtherUser(u) == IF u = "u1" THEN "u2" ELSE "u1"

\* two events of 999,999 tokens each, of tenant w and user u, written at `at`
Heavy(w, u, at) ==
  << Row(0, 0, u, w, TokensLimit - 1, at), Row(0, 0, u, w, TokensLimit - 1, at) >>

\* ledgers to compare the ledger with: it without the events of other tenants,
\* of other users, of before `since`; it with events added before or after:
\* heavy ones of another tenant, a burst of another user, and events of the
\* tenant and the user themselves, old ones and new ones
OtherLedgers(w, u, since) ==
  { SelectSeq(ai_usage, LAMBDA e : e.workspace_id = w),
    SelectSeq(ai_usage, LAMBDA e : e.user_id = u),
    SelectSeq(ai_usage, LAMBDA e : e.created_at >= since),
    Heavy(OtherTenant(w), u, since) \o ai_usage,
    ai_usage \o Heavy(OtherTenant(w), OtherUser(u), since + 1),
    ai_usage \o Heavy(w, u, since - 1),
    ai_usage \o Heavy(w, OtherUser(u), since),
    Burst(RequestsAllowed, OtherUser(u), since) \o ai_usage,
    ai_usage \o Burst(RequestsAllowed, u, since - 60 * RequestsAllowed),
    ai_usage \o Burst(RequestsAllowed, u, since) }

\* C18: the quota check of a request for tenant A decides as the program's
\* quota decision does on every ledger that has A's events of the month,
\* whatever else it has; the rate check of a request of user U decides as the
\* rate decision does on every ledger that has U's events of the last hour.
C18_Isolation ==
  [][\A r \in DOMAIN req :
       /\ QuotaStep(r) =>
            LET w == req[r].workspaceId
                since == req[r].startOfMonth
            IN \A other \in OtherLedgers(w, req[r].user, since) :
                 TenantEvents(other, w, since) = TenantEvents(ai_usage, w, since)
                 => (QuotaAdmitted(r) <=>
                       ~(/\ ~req'[r].quotaError
                         /\ QuotaExceeded(SumTokens(MonthlyUsage(other, w, since)))))
       /\ RateStep(r) =>
            LET u == req[r].user
                since == req[r].oneHourAgo
            IN \A other \in OtherLedgers(req[r].workspaceId, u, since) :
                 UserEvents(other, u, since) = UserEvents(ai_usage, u, since)
                 => (RateAdmitted(r) <=>
                       ~(/\ ~req'[r].rateLimitError
                         /\ RateExceeded(Len(RecentRequests(other, u, since)))))]_vars

\* C18 witness: a request of user u2 passed the rate check while user u1 had
\* 20 events in the hour, and the quota check for the default workspace while
\* another tenant had events this month
C18_Witness ==
  \E r \in DOMAIN req :
    /\ req[r].pc = "invoke" /\ req[r].user = "u2"
    /\ req[r].workspaceId = DefaultWorkspace
    /\ ~req[r].quotaError /\ req[r].totalTokens = 0
    /\ Len(UserEvents(ai_usage, "u1", req[r].oneHourAgo)) = RequestsAllowed
    /\ Len(TenantEvents(ai_usage, OtherWorkspace, req[r].startOfMonth)) = RequestsAllowed

\* C19 as stated: the request a send builds has the system prompt first and
\* then at most 10 conversation messages, the last of them the message the
\* user just sent, which is in the request exactly once.
C19_LastTenMessages ==
  client.kind = "chat" /\ client.pc # "idle" =>
    LET request == client.chatMessages
        sent == client.messages[client.aiMessageId - 1]
    IN /\ request[1] = [role |-> "system", content |-> SystemPrompt]
       /\ Len(request) - 1 <= 10
       /\ request[Len(request)] = [role |-> "user", content |-> sent.content]
       /\ Cardinality({i \in DOMAIN request : request[i].content = sent.content}) = 1

\* a rolling 60-minute window
Hour == 60 * 60

\* the events of user u in `rows` written in the 60 minutes from `from` on
InWindow(rows, u, from) ==
  Cardinality({k \in DOMAIN rows :
                 /\ rows[k].user_id = u
                 /\ from <= rows[k].created_at /\ rows[k].created_at <= from + Hour})

\* C20 as stated: with one user's requests one after another, no 60-minute
\* window ever holds more than 20 of the user's events.
C20_WindowNeverOver ==
  \A j \in DOMAIN ai_usage :
    InWindow(ai_usage, ai_usage[j].user_id, ai_usage[j].created_at) <= RequestsAllowed

\* C20 amended: a request whose rate query was answered is admitted only with
\* fewer than 20 events of its user in the hour before it; nothing is written
\* between its check and its own write; and the event of a request that had
\* fewer than 20 leaves every 60-minute window it lies in with at most 20,
\* however long after the check it is written.  (A request whose rate query
\* failed is admitted with 20 or more and takes a window over 20.)
C20_WindowKeptWhenRead ==
  [][\A r \in DOMAIN req :
       /\ RateStep(r) /\ RateAdmitted(r) /\ ~req'[r].rateLimitError =>
            RequestCount(req[r].user, req[r].oneHourAgo) < RequestsAllowed
       /\ req[r].pc \in {"quota", "invoke"} => ai_usage' = ai_usage
       /\ /\ RecordStep(r) /\ Len(ai_usage') > Len(ai_usage)
          /\ RequestCount(req[r].user, req[r].oneHourAgo) < RequestsAllowed
          => \A j \in DOMAIN ai_usage' :
               /\ ai_usage'[j].user_id = req[r].user
               /\ ai_usage'[j].created_at + Hour >= now
               => InWindow(ai_usage', req[r].user, ai_usage'[j].created_at)
                    <= RequestsAllowed]_vars

\* C20 witness: the user's 20th event of the hour was written by a request
\* admitted at 19, and the user's next request was answered RateLimited
C20_Witness ==
  /\ Len(ai_usage) = RequestsAllowed
  /\ ai_usage[RequestsAllowed].rid # 0
  /\ InWindow(ai_usage, "u1", ai_usage[1].created_at) = RequestsAllowed
  /\ \E r \in DOMAIN req :
       req[r].pc = "done" /\ req[r].from = "rate" /\ req[r].resp.status = 429

\* the degree of concurrency: the requests there are, all of one user
Concurrency == Cardinality(DOMAIN req)

\* requests of user u that passed the rate check and have not written yet
Pending(u) ==
  Cardinality({r \in DOMAIN req :
                 req[r].user = u /\ req[r].pc \in {"quota", "invoke", "record"}})

\* C21 as stated: with k requests of a user in flight together, no 60-minute
\* window ever holds more than requests_allowed - 1 + k of the user's events.
C21_ExcessAtMostConcurrency ==
  \A j \in DOMAIN ai_usage :
    InWindow(ai_usage, ai_usage[j].user_id, ai_usage[j].created_at)
      <= RequestsAllowed - 1 + Concurrency

\* the events of every 60-minute window of user u, those that the requests
\* past the check can still write into it counted in, number at most 19 + k
Reservable(u) ==
  \A j \in DOMAIN ai_usage :
    ai_usage[j].user_id = u =>
      InWindow(ai_usage, u, ai_usage[j].created_at)
        + (IF ai_usage[j].created_at + Hour >= now THEN Pending(u) ELSE 0)
        <= RequestsAllowed - 1 + Concurrency

\* request r is admitted in this step by a rate query that failed
AdmittedUnread(r) == RateStep(r) /\ RateAdmitted(r) /\ req'[r].rateLimitError

\* C21 amended: the bound holds at the start, and every step that is not the
\* admission of a request whose rate query failed keeps it: an admission by an
\* answered query, with others already past the check, and every later write.
\* So the user's events of a window exceed 20 by at most the requests in flight
\* together, as long as no rate query fails.
C21_ExcessAtMostConcurrencyWhenRead ==
  /\ \A u \in Users : Reservable(u)
  /\ [][(\A r \in DOMAIN req : ~AdmittedUnread(r)) =>
          \A u \in Users : Reservable(u) => Reservable(u)']_vars

\* C21 witness: from 19 events in the hour, two requests passed the check
\* before either wrote, and both wrote: 21 events of the user in one hour
C21_Witness ==
  /\ Len(ai_usage) = RequestsAllowed + 1
  /\ InWindow(ai_usage, "u1", ai_usage[1].created_at) = RequestsAllowed + 1
  /\ \A r \in DOMAIN req : req[r].pc = "done" /\ req[r].resp.status = 200
  /\ \E i, j \in DOMAIN ai_usage : i # j /\ ai_usage[i].rid = 1 /\ ai_usage[j].rid = 2

\* C22: the rate limiter fails open.  The rate check ends in one of two ways
\* only: the request goes on to the quota check, or it is answered RateLimited,
\* and then the user really has 20 or more events in the hour; no answer of this
\* stage is an error, and a request whose rate query failed (rateLimitError)
\* goes on to the quota check with its quota query sent and no upstream call made.
C22_RateFailsOpen ==
  [][\A r \in DOMAIN req : RateStep(r) =>
       /\ RateAdmitted(r) \/ RateRejected(r)
       /\ RateRejected(r) =>
            RequestCount(req[r].user, req[r].oneHourAgo) >= RequestsAllowed
       /\ req'[r].rateLimitError =>
            /\ RateAdmitted(r)
            /\ req'[r].startOfMonth = StartOfMonth(now)
            /\ req'[r].upstreamCalls = req[r].upstreamCalls]_vars

\* C22 witness: a request of a user with 20 or more events in the hour is at
\* the quota check, let through by a rate query that failed
C22_Witness ==
  \E r \in DOMAIN req :
    /\ req[r].pc = "quota" /\ req[r].rateLimitError
    /\ RequestCount(req[r].user, req[r].oneHourAgo) >= RequestsAllowed

\* the times the clock of a behaviour can show
ClockValues == {Now0 + 60 * a + LongStep * b : a \in 0..MaxTicks, b \in 0..MaxTicks}

\* user u's events counted by a rate check made at time t
CountedAt(u, t) ==
  {i \in DOMAIN ai_usage :
     ai_usage[i].user_id = u /\ ai_usage[i].created_at >= t - Hour}

\* created_at of the oldest of them
OldestCounted(u, t) ==
  CHOOSE o \in {ai_usage[i].created_at : i \in CountedAt(u, t)} :
    \A i \in CountedAt(u, t) : o <= ai_usage[i].created_at

\* a request of user u at time t is answered RateLimited, and the ledger holds
\* no event of u written after t
LimitedAt(u, t) ==
  /\ Cardinality(CountedAt(u, t)) >= RequestsAllowed
  /\ \A i \in DOMAIN ai_usage : ai_usage[i].user_id = u => ai_usage[i].created_at <= t

\* C23 as stated: a user rejected at time t, with no event written since,
\* passes the rate check with every request made later than the oldest counted
\* event's created_at + 60 minutes, and with every request made after t + 60
\* minutes; a rejected request writes nothing.
C23_AdmittedOnceOldestLeaves ==
  [][\A r \in DOMAIN req : RateStep(r) =>
       LET u == req[r].user
           made == req[r].oneHourAgo + Hour
       IN /\ RateRejected(r) => ai_usage' = ai_usage
          /\ \A t \in ClockValues :
               t <= made /\ LimitedAt(u, t) =>
                 /\ made > OldestCounted(u, t) + Hour => RateAdmitted(r)
                 /\ made > t + Hour => RateAdmitted(r)]_vars

\* C23 amended: the same for a request made after t + 60 minutes; a request
\* made later than the oldest counted event's created_at + 60 minutes passes
\* when exactly 20 events were counted at the rejection (with more than 20,
\* which failed rate queries and requests in flight together leave behind, the
\* events that remain are still 20 or more).
C23_AdmittedAgain ==
  [][\A r \in DOMAIN req : RateStep(r) =>
       LET u == req[r].user
           made == req[r].oneHourAgo + Hour
       IN /\ RateRejected(r) => ai_usage' = ai_usage
          /\ \A t \in ClockValues :
               t <= made /\ LimitedAt(u, t) =>
                 /\ /\ made > OldestCounted(u, t) + Hour
                    /\ Cardinality(CountedAt(u, t)) = RequestsAllowed
                    => RateAdmitted(r)
                 /\ made > t + Hour => RateAdmitted(r)]_vars

\* C23 witness: a user who was limited when the behaviour began, and has
\* written nothing since, is past the rate check by an answered rate query
C23_Witness ==
  \E r \in DOMAIN req :
    /\ req[r].pc = "quota" /\ ~req[r].rateLimitError
    /\ LimitedAt(req[r].user, Now0)
    /\ req[r].oneHourAgo + Hour > OldestCounted(req[r].user, Now0) + Hour

\* getUserRateLimit answers in this step, with a row
RateLimitAnswered ==
  /\ client.rateLimit = << >> /\ client'.rateLimit # << >>
  /\ client'.rateLimit[1].data # << >>

\* C24 as stated: get_user_rate_limit(user) reports request_count = the user's
\* events with created_at >= now - 1 hour, requests_allowed = 20,
\* requests_remaining = max(0, 20 - request_count), and reset_at = created_at of
\* the oldest counted event + 1 hour.
C24_RateLimitStatus ==
  [][RateLimitAnswered =>
       LET u == client'.rateLimit[1].p_user_id
           status == client'.rateLimit[1].data[1]
           n == Cardinality(CountedAt(u, now))
       IN /\ status.request_count = n
          /\ status.requests_allowed = RequestsAllowed
          /\ status.requests_remaining = (IF n < 20 THEN 20 - n ELSE 0)
          /\ n > 0 => status.reset_at = OldestCounted(u, now) + Hour]_vars

\* C25 as stated: every event of the ledger has total_tokens > 0,
\* cost_estimate >= 0 and total_tokens = prompt_tokens + completion_tokens,
\* whatever usage the provider reported.
C25_EventsWellFormed ==
  \A i \in DOMAIN ai_usage :
    /\ ai_usage[i].token_count > 0
    /\ ai_usage[i].cost_estimate >= 0
    /\ ai_usage[i].token_count = ai_usage[i].prompt_tokens + ai_usage[i].completion_tokens

\* the part of it that the table's CHECK constraints keep
PositiveTokensAndCost ==
  \A i \in DOMAIN ai_usage :
    ai_usage[i].token_count > 0 /\ ai_usage[i].cost_estimate >= 0

\* the body of request r is parsed in this step and the request goes on
ParseStep(r) == req[r].pc = "parse" /\ req'[r].pc = "rate"

\* C26: the tenant charged is the tenant checked.  The handler's workspaceId is
\* the body's, or the default tenant when the body has none; it stays what it
\* is until the response; the quota check reports the tokens of that tenant;
\* and the event written carries that tenant as workspace_id.
C26_ChargedTenantIsCheckedTenant ==
  [][\A r \in DOMAIN req :
       /\ ParseStep(r) =>
            /\ req'[r].body.workspaceId = Omitted =>
                 req'[r].workspaceId = "00000000-0000-0000-0000-000000000001"
            /\ req'[r].body.workspaceId # Omitted =>
                 req'[r].workspaceId = req'[r].body.workspaceId
       /\ req[r].pc \in {"rate", "quota", "invoke"} /\ req'[r].pc # "done" =>
            req'[r].workspaceId = req[r].workspaceId
       /\ QuotaStep(r) /\ ~req'[r].quotaError =>
            LET used == TokensUsed(req[r].workspaceId, req[r].startOfMonth)
            IN IF QuotaAdmitted(r) THEN req'[r].totalTokens = used
               ELSE req'[r].resp.current = used
       /\ RecordStep(r) /\ Len(ai_usage') > Len(ai_usage) =>
            ai_usage'[Len(ai_usage')].workspace_id = req[r].workspaceId]_vars

\* C26 witness: a request whose body named no tenant wrote its event, charged
\* to the default tenant, whose 999,999 tokens its quota check had counted
C26_Witness ==
  \E r \in DOMAIN req, i \in DOMAIN ai_usage :
    /\ ai_usage[i].rid = r
    /\ ai_usage[i].workspace_id = DefaultWorkspace
    /\ req[r].pc = "done" /\ req[r].resp.status = 200
    /\ req[r].resp.monthlyTotal = TokensLimit - 1 + ai_usage[i].token_count

\* what get_workspace_monthly_quota reports for the tenant of request r now
QuotaStatusOf(r) == get_workspace_monthly_quota(ai_usage, req[r].workspaceId, now)

\* the total the gateway computed in this step: totalTokens, sent back as
\* usage.current when the request is rejected
GatewayTotal(r) ==
  IF QuotaAdmitted(r) THEN req'[r].totalTokens ELSE req'[r].resp.current

\* the quota check of request r answers in this step, in the month in which
\* its startOfMonth was taken
QuotaStepInMonth(r) ==
  QuotaStep(r) /\ req[r].startOfMonth = StartOfMonth(now) /\ IsUuid(req[r].workspaceId)

\* C27 as stated: within one month, the gateway's quota check rejects a request
\* of a tenant iff get_workspace_monthly_quota reports tokens_remaining = 0 for
\* it, and the function's tokens_used is the total the gateway computes.
C27_GatewayAgreesWithStatus ==
  [][\A r \in DOMAIN req : QuotaStepInMonth(r) =>
       /\ (req'[r].pc = "done") <=> (QuotaStatusOf(r).tokens_remaining = 0)
       /\ QuotaStatusOf(r).tokens_used = GatewayTotal(r)]_vars

\* C27 amended: a request the gateway rejects is of a tenant for which the
\* function reports tokens_remaining = 0 and the total the gateway reports;
\* when the quota query is answered, the gateway's total is the function's
\* tokens_used and the gateway rejects iff tokens_remaining = 0 and tokens_used
\* is not exactly tokens_limit (at the limit nothing remains, and the request
\* is admitted); when the quota query fails the request is admitted.
C27_GatewayAgreesBelowAndAboveLimit ==
  [][\A r \in DOMAIN req : QuotaStepInMonth(r) =>
       LET status == QuotaStatusOf(r) IN
       /\ req'[r].pc = "done" =>
            status.tokens_remaining = 0 /\ status.tokens_used = GatewayTotal(r)
       /\ ~req'[r].quotaError /\ QuotaAdmitted(r) => status.tokens_used = GatewayTotal(r)
       /\ (req'[r].pc = "done" \/ ~req'[r].quotaError) =>
            ((req'[r].pc = "done") <=>
               (status.tokens_remaining = 0 /\ status.tokens_used # status.tokens_limit))
       /\ req'[r].quotaError => QuotaAdmitted(r)]_vars

\* C27 witness: the gateway, its quota query answered, has admitted a request
\* of a tenant for which the function reports nothing remaining
C27_Witness ==
  \E r \in DOMAIN req :
    /\ req[r].pc = "invoke" /\ ~req[r].quotaError
    /\ req[r].startOfMonth = StartOfMonth(now)
    /\ req[r].totalTokens = QuotaStatusOf(r).tokens_used
    /\ QuotaStatusOf(r).tokens_remaining = 0

\* C28: the quota check fails open.  The quota check ends in one of two ways
\* only: the upstream call is made, or the request is answered QuotaExceeded,
\* and then the tenant really is over its limit; a request whose quota query
\* failed (quotaError) goes on with a total of 0 tokens, and the 200 it ends
\* with reports as monthlyTotal the tokens of this call alone.
C28_QuotaFailsOpen ==
  [][\A r \in DOMAIN req :
       /\ QuotaStep(r) =>
            LET used == TokensUsed(req[r].workspaceId, req[r].startOfMonth) IN
            /\ QuotaAdmitted(r) \/ QuotaRejected(r, used)
            /\ req'[r].pc = "done" => used > TokensLimit
            /\ req'[r].quotaError =>
                 /\ QuotaAdmitted(r)
                 /\ req'[r].totalTokens = 0
                 /\ req'[r].upstreamCalls = req[r].upstreamCalls + 1
       /\ req[r].pc = "invoke" /\ req'[r].pc = "record" =>
            req'[r].quotaError = req[r].quotaError /\ req'[r].totalTokens = req[r].totalTokens
       /\ RecordStep(r) /\ req[r].quotaError =>
            /\ req'[r].resp.status = 200
            /\ req'[r].resp.tokens = req[r].tokensUsed
            /\ req'[r].resp.monthlyTotal = req[r].tokensUsed]_vars

\* C28 witness: a request for a tenant over its limit was answered 200, its
\* event is in the ledger, and the monthlyTotal sent back is this call's tokens
C28_Witness ==
  \E r \in DOMAIN req, i \in DOMAIN ai_usage :
    /\ req[r].pc = "done" /\ req[r].resp.status = 200
    /\ req[r].resp.monthlyTotal = req[r].resp.tokens
    /\ ai_usage[i].rid = r
    /\ TokensUsed(ai_usage[i].workspace_id, StartOfMonth(ai_usage[i].created_at))
         - ai_usage[i].token_count > TokensLimit

\* rows of conversation_messages that the handler of request r inserted
MessageRows(r) == {i \in DOMAIN conversation_messages : conversation_messages[i].rid = r}

\* C29: conversation_messages changes only in the step in which a request gets
\* its 200, the step that begins with the answer to the usage insert: one
\* assistant row is appended, of that request, for a conversation and with the
\* tokens of the call; a request has at most one row; a step that ends a
\* request otherwise leaves the table as it is; and the last step of a request
\* past the upstream call answers 200 whether a row was stored or not.
C29_AssistantRowOnlyOnSuccess ==
  /\ [](\A r \in DOMAIN req :
          /\ Cardinality(MessageRows(r)) <= 1
          /\ MessageRows(r) # {} => req[r].pc = "done" /\ req[r].resp.status = 200)
  /\ [][/\ conversation_messages' # conversation_messages =>
            \E r \in DOMAIN req :
              /\ RecordStep(r)
              /\ req'[r].resp.status = 200
              /\ Len(conversation_messages') = Len(conversation_messages) + 1
              /\ SubSeq(conversation_messages', 1, Len(conversation_messages))
                   = conversation_messages
              /\ LET m == conversation_messages'[Len(conversation_messages')]
                 IN /\ m.rid = r /\ m.role = "assistant"
                    /\ m.conversation_id \in Conversations
                    /\ m.tokens_used = req[r].tokensUsed
       /\ \A r \in DOMAIN req :
            /\ req'[r].pc = "done" /\ req[r].pc \notin {"done", "record"} =>
                 conversation_messages' = conversation_messages
            /\ RecordStep(r) => req'[r].resp.status = 200]_vars

\* C29 witness: a request answered 200 whose assistant row is stored while its
\* usage insert failed, and nothing else is in the table
C29_Witness ==
  \E r \in DOMAIN req :
    /\ req[r].pc = "done" /\ req[r].resp.status = 200
    /\ Cardinality(MessageRows(r)) = 1 /\ Len(conversation_messages) = 1
    /\ UsageRows(r) = 0

\* assistant rows the widget stored in conversation_messages
AssistantRows ==
  {i \in DOMAIN conversation_messages : conversation_messages[i].role = "assistant"}

\* C30: at most one streamed call is open per widget, and isLoading is true
\* while it is; once a send is over, completed or failed, isLoading is false;
\* while isLoading is true or the input is blank no step opens a stream, shows
\* a user message or stores one; a stream is opened only by a send with
\* isLoading false and an input that is not blank; and the step in which a
\* stream fails appends the error message to the local list and stores
\* nothing, so that no assistant message of that send is in the table.
C30_OneSendAtATime ==
  /\ [](/\ client.inFlight <= 1
        /\ client.inFlight = 1 => client.isLoading
        /\ client.pc = "stream" => client.inFlight = 1
        /\ client.pc \in {"done", "failed"} => ~client.isLoading /\ client.inFlight = 0
        /\ client.pc = "failed" => AssistantRows = {})
  /\ [][/\ client.isLoading \/ Trim(client.inputValue) = << >> =>
            /\ client'.inFlight <= client.inFlight
            /\ \A i \in DOMAIN client'.messages :
                 i > Len(client.messages) => client'.messages[i].role # "user"
            /\ \A i \in DOMAIN conversation_messages' :
                 i > Len(conversation_messages) => conversation_messages'[i].role # "user"
        /\ client'.inFlight > client.inFlight =>
            /\ ~client.isLoading /\ Trim(client.inputValue) # << >>
            /\ client'.isLoading
        /\ client.pc = "stream" /\ client'.pc = "failed" =>
            /\ client'.messages =
                 Append(client.messages,
                        [id |-> Len(client.messages) + 1, role |-> "assistant",
                         content |-> ConnectionTrouble, stored |-> FALSE])
            /\ conversation_messages' = conversation_messages]_vars

\* C30 witness: a send whose stream failed after its first fragment: the user's
\* message is stored, the partial answer and the error message are shown,
\* isLoading is false again and no assistant message is stored
C30_Witness ==
  /\ client.pc = "failed" /\ ~client.isLoading
  /\ client.aiResponseContent # << >>
  /\ client.messages[Len(client.messages)].content = ConnectionTrouble
  /\ Len(conversation_messages) = 1 /\ conversation_messages[1].role = "user"
  /\ AssistantRows = {}

====
